---- MODULE Spec2Model ----
(***************************************************************************)
(* Model of the response cache (utils/apiCache.js) and of the data         *)
(* orchestrator built on it (utils/dataManager.js).                        *)
(*                                                                         *)
(* JavaScript values are represented as follows.                           *)
(*   - a string is a sequence of atoms (an atom is a TLA+ string standing  *)
(*     for one character or for one fixed piece of text);                  *)
(*   - an object is a function whose domain is the set of its field names; *)
(*   - a value that may be undefined/null is a sequence of length 0 or 1;  *)
(*   - the clock counts units of TimeUnit milliseconds.                    *)
(* All tasks run on one thread: a step of the model is the code a task     *)
(* runs between two awaits, so steps of different tasks interleave only at *)
(* the awaits of a remote round trip.                                      *)
(***************************************************************************)
EXTENDS Integers, Sequences, FiniteSets, TLC

\* ------------------------------------------------------------------ bounds
MaxTime == 4
MaxRows == 1
MaxListeners == 2
MaxFilters == 2
MaxSheet == 2

Slots == {1, 2}
\* The three reads of preloadData and the top level of index.js.
BatchSlots == {1, 2, 3}
Main == 0
Callbacks == {"setData"}
\* Callbacks that throw when they are invoked.
Throwers == {"thrower"}
MemberCallbacks == {"setMembers", "reload"}

\* --------------------------------------------------------------- constants
TimeUnit == 15 * 60 * 1000
DEFAULT_TTL == (60 * 60 * 1000) \div TimeUnit
CACHE_KEY_PREFIX == <<"api_cache_">>
BASE_URL == <<"https://sheetdb.io/api/v1/254cxsbebm3n7">>

Resources == {"MEMBERS", "TRANSACTIONS", "LOANS"}

SheetName ==
  [MEMBERS |-> "Member List", TRANSACTIONS |-> "Transactions", LOANS |-> "Loan Details"]

ENDPOINTS == [r \in Resources |-> BASE_URL \o <<"?sheet=", SheetName[r]>>]

\* The table with the members and transactions lifetimes exchanged.
CACHE_TTL_Exchanged ==
  [MEMBERS      |-> (15 * 60 * 1000) \div TimeUnit,
   TRANSACTIONS |-> (30 * 60 * 1000) \div TimeUnit,
   LOANS        |-> (15 * 60 * 1000) \div TimeUnit]

CACHE_TTL ==
  [MEMBERS      |-> (30 * 60 * 1000) \div TimeUnit,
   TRANSACTIONS |-> (15 * 60 * 1000) \div TimeUnit,
   LOANS        |-> (15 * 60 * 1000) \div TimeUnit]

\* ------------------------------------------------------- optional values
None == <<>>
Some(x) == <<x>>
IsSome(o) == o # <<>>
The(o) == o[1]

\* ------------------------------------------------------------ getCacheKey
\* UTF-16 code unit of the one-character atoms that occur in filters.
Code(c) ==
  CASE c = "&" -> 38 [] c = "," -> 44 [] c = "1" -> 49 [] c = "2" -> 50
    [] c = "=" -> 61 [] c = "a" -> 97 [] c = "b" -> 98 [] OTHER -> 0

RECURSIVE StrLess(_, _)
StrLess(s, t) ==
  IF t = <<>> THEN FALSE
  ELSE IF s = <<>> THEN TRUE
  ELSE IF Code(Head(s)) # Code(Head(t)) THEN Code(Head(s)) < Code(Head(t))
  ELSE StrLess(Tail(s), Tail(t))

\* Array.prototype.toString of a [k, v] entry.
EntryString(e) == e[1] \o <<",">> \o e[2]

RECURSIVE InsertEntry(_, _)
InsertEntry(e, sorted) ==
  IF sorted = <<>> THEN <<e>>
  ELSE IF StrLess(EntryString(e), EntryString(Head(sorted)))
       THEN <<e>> \o sorted
       ELSE <<Head(sorted)>> \o InsertEntry(e, Tail(sorted))

\* entries.sort() with the default comparator (stable).
RECURSIVE SortEntries(_)
SortEntries(entries) ==
  IF entries = <<>> THEN <<>>
  ELSE LET n == Len(entries)
       IN InsertEntry(entries[n], SortEntries(SubSeq(entries, 1, n - 1)))

RECURSIVE JoinAmp(_)
JoinAmp(strs) ==
  IF strs = <<>> THEN <<>>
  ELSE IF Len(strs) = 1 THEN strs[1]
  ELSE strs[1] \o <<"&">> \o JoinAmp(Tail(strs))

EmptyFilters == <<>>

getCacheKey(endpoint, filters) ==
  LET sorted == SortEntries(filters)
      filterStr == JoinAmp([i \in 1..Len(sorted) |-> sorted[i][1] \o <<"=">> \o sorted[i][2]])
  IN CACHE_KEY_PREFIX \o endpoint \o (IF filterStr # <<>> THEN <<"_">> \o filterStr ELSE <<>>)

KeyOf(r) == getCacheKey(ENDPOINTS[r], EmptyFilters)
\* The filters objects that fetch and invalidate are called with.
StatusActive == << <<<<"Status">>, <<"Active">>>> >>
KeyFilters == {EmptyFilters, StatusActive}
Keys == {getCacheKey(ENDPOINTS[r], f) : r \in Resources, f \in KeyFilters}
ResOf(k) == CHOOSE r \in Resources : KeyOf(r) = k


\* ------------------------------------------------------------------ inputs
Names == {"Alice", "Bob"}
MemberInputs == {[Name |-> "Alice", Id |-> 1], [Name |-> "Bob"]}
TransactionInputs == {[Name |-> "Alice"]}
LoanInputs == {[Name |-> "Alice", Id |-> 1, Status |-> "Active"]}
LoanIds == {1}
TransactionIds == {7, 8}
LoanUpdates == {[Status |-> "Closed"]}
MemberUpdates == {[Status |-> "Inactive"]}
NoRow == [Name |-> ""]

\* Filter names and values, some of them holding the separators "," "=" "&".
\* A filters object is the sequence of its [name, value] entries in insertion
\* order (the names are not integer-like), with pairwise distinct names.
FilterNames == {<<"a">>, <<"b">>, <<"a", ",", "b">>, <<"a", "=", "1">>}
FilterValues == {<<"1">>, <<"2">>, <<"b", ",", "1">>, <<"1", "&", "b", "=", "2">>}
FilterInputs ==
  UNION {{f \in [1..n -> FilterNames \X FilterValues] :
            \A i, j \in 1..n : i # j => f[i][1] # f[j][1]} : n \in 0..MaxFilters}

\* Rows the remote sheets may hold before the application starts.
SheetRows ==
  [MEMBERS      |-> MemberInputs,
   TRANSACTIONS |-> {[Name |-> "Alice", Id |-> 7], [Name |-> "Bob", Id |-> 8]},
   LOANS        |-> {[Name |-> "Alice", Id |-> 1, Status |-> "Active"],
                     [Name |-> "Alice", Id |-> 2, Status |-> "Closed"]}]
SheetsOf(r) == UNION {[1..n -> SheetRows[r]] : n \in 0..MaxSheet}

\* Queries of searchMembers, as sequences of characters.
Queries == {<<>>, <<"B">>, <<"L", "i">>, <<"b", "o", "b", "b">>}
LocalOps == {"searchMembers", "searchTransactions", "getLoanByMember", "getLoansByMember"}

GetOps == {"getMembers", "getTransactions", "getLoans", "fetch"}
GetOpOf == [MEMBERS |-> "getMembers", TRANSACTIONS |-> "getTransactions", LOANS |-> "getLoans"]
OwnKeyWriteOps == {"addMember", "addTransaction", "updateLoan", "addLoan"}
DirectWriteOps ==
  OwnKeyWriteOps \cup {"deleteMember", "deleteTransactions", "deleteTransactionById"}
WriteOps == DirectWriteOps \cup {"updateMember"}

\* ------------------------------------------------------------------- state
VARIABLES
  now,        \* Date.now(), in units of TimeUnit
  memory,     \* ApiCache.memory: key -> optional [data, expiresAt]
  listeners,  \* ApiCache.listeners: key -> sequence of callbacks
  sheet,      \* the remote spreadsheet: resource -> sequence of rows
  tasks,      \* the asynchronous calls in flight, one per slot
  stale,      \* key -> the cached payload was read before a mutation the
              \* service has applied since (bookkeeping, not program state)
  ev          \* what the last step did that its caller can observe

vars == <<now, memory, listeners, sheet, tasks, stale, ev>>

NoReq == [method |-> "", res |-> "", sel |-> <<>>, body |-> NoRow]
NoResp == [status |-> "", body |-> <<>>, text |-> <<>>, sup |-> FALSE]

IdleTask ==
  [op |-> "idle", pc |-> "idle", key |-> <<>>, ttl |-> 0, force |-> FALSE,
   name |-> "", updates |-> NoRow, req |-> NoReq, resp |-> NoResp,
   ent0 |-> None, now0 |-> 0, calls |-> 0, eff |-> {}, postInv |-> FALSE,
   invEnt |-> None, mem0 |-> <<>>, list |-> None, prev |-> None, batch |-> FALSE,
   lstC |-> None]

NoEv ==
  [type |-> "none", op |-> "", key |-> <<>>, force |-> FALSE, name |-> "",
   status |-> "", value |-> None, err |-> <<>>, ent0 |-> None, entF |-> None,
   now0 |-> 0, ttl |-> 0, calls |-> 0, eff |-> {}, postInv |-> FALSE,
   invEnt |-> None, mem0 |-> <<>>, notified |-> <<>>, list |-> None,
   prev |-> None, cb |-> "", lst0 |-> <<>>, filters |-> <<>>, res |-> "",
   query |-> <<>>, lstC |-> None, pattern |-> <<>>, seen |-> None]

\* The event of a call that has settled: type is "return" or "throw".
Settled(type, task, value, err, entF, notified) ==
  [type |-> type, op |-> task.op, key |-> task.key, force |-> task.force,
   name |-> task.name, status |-> task.resp.status, value |-> value, err |-> err,
   ent0 |-> task.ent0, entF |-> entF, now0 |-> task.now0, ttl |-> task.ttl,
   calls |-> task.calls, eff |-> task.eff, postInv |-> task.postInv,
   invEnt |-> task.invEnt, mem0 |-> task.mem0, notified |-> notified, list |-> task.list,
   prev |-> task.prev, cb |-> "", lst0 |-> <<>>, filters |-> <<>>, res |-> "",
   query |-> <<>>, lstC |-> task.lstC, pattern |-> <<>>, seen |-> None]

Init ==
  /\ now = 1
  /\ memory = [k \in Keys |-> None]
  /\ listeners = [k \in Keys |-> <<>>]
  /\ sheet = [r \in Resources |-> <<>>]
  /\ tasks = [t \in Slots \cup BatchSlots \cup {Main} |-> IdleTask]
  /\ stale = [k \in Keys |-> FALSE]
  /\ ev = NoEv

\* A new call takes the lowest free slot.
Free(t) ==
  /\ tasks[t].pc = "idle"
  /\ \A u \in Slots : u < t => tasks[u].pc # "idle"

\* --------------------------------------------------------------- ApiCache
\* isValidCache with the expiry test off by one (>= for >).
isValidCacheOffByOne(mem, key, t) ==
  IF ~IsSome(mem[key]) THEN [valid |-> FALSE, memory |-> mem]
  ELSE LET expiresAt == The(mem[key]).expiresAt
       IN IF expiresAt # 0 /\ t >= expiresAt
          THEN [valid |-> FALSE, memory |-> [mem EXCEPT ![key] = None]]
          ELSE [valid |-> TRUE, memory |-> mem]

\* isValidCache(key): the answer and the store it leaves (lazy eviction).
isValidCache(mem, key, t) ==
  IF ~IsSome(mem[key]) THEN [valid |-> FALSE, memory |-> mem]
  ELSE LET expiresAt == The(mem[key]).expiresAt
       IN IF expiresAt # 0 /\ t > expiresAt
          THEN [valid |-> FALSE, memory |-> [mem EXCEPT ![key] = None]]
          ELSE [valid |-> TRUE, memory |-> mem]

\* getCached(key): the data, or null.
getCached(mem, key) ==
  IF IsSome(mem[key]) THEN Some(The(mem[key]).data) ELSE None

\* setCached that stores the ttl itself as the expiry (Date.now() left out).
setCachedNoClock(mem, key, data, ttl, t) ==
  [mem EXCEPT ![key] = Some([data |-> data, expiresAt |-> ttl])]

\* setCached(key, data, ttl)
setCached(mem, key, data, ttl, t) ==
  [mem EXCEPT ![key] = Some([data |-> data, expiresAt |-> t + ttl])]

\* invalidate that removes nothing.
invalidateNothing(mem, endpoint, filters) == mem

\* invalidate(endpoint, filters)
invalidate(mem, endpoint, filters) ==
  [mem EXCEPT ![getCacheKey(endpoint, filters)] = None]

\* clear that removes the members entry only.
clearMembers(mem) == [mem EXCEPT ![KeyOf("MEMBERS")] = None]

\* clear()
clear(mem) == [k \in DOMAIN mem |-> None]

\* A filter that keeps every element.
RECURSIVE FilterOutNothing(_, _)
FilterOutNothing(cbs, callback) ==
  IF cbs = <<>> THEN <<>>
  ELSE <<Head(cbs)>> \o FilterOutNothing(Tail(cbs), callback)

\* The array without the elements equal to callback.
RECURSIVE FilterOut(_, _)
FilterOut(cbs, callback) ==
  IF cbs = <<>> THEN <<>>
  ELSE IF Head(cbs) # callback THEN <<Head(cbs)>> \o FilterOut(Tail(cbs), callback)
  ELSE FilterOut(Tail(cbs), callback)

\* The callback whose unsubscribe handle callback cb calls when it is invoked.
HandleCalledBy(cb) == IF cb = "stopReload" THEN Some("reload") ELSE None

\* The callbacks registered for a key once the invocations invs have been
\* made: each handle called during the round assigns the filtered array.
RECURSIVE RoundListeners(_, _)
RoundListeners(cbs, invs) ==
  IF invs = <<>> THEN cbs
  ELSE RoundListeners(IF IsSome(HandleCalledBy(Head(invs).cb))
                      THEN FilterOut(cbs, The(HandleCalledBy(Head(invs).cb)))
                      ELSE cbs,
                      Tail(invs))

RECURSIVE Concat(_)
Concat(seqs) == IF seqs = <<>> THEN <<>> ELSE Head(seqs) \o Concat(Tail(seqs))

\* notifyListeners that invokes the callbacks of every key.
notifyListenersAll(lst, key, data) ==
  LET all == Concat([i \in 1..3 |->
                       lst[KeyOf(CASE i = 1 -> "MEMBERS" [] i = 2 -> "TRANSACTIONS"
                                   [] OTHER -> "LOANS")]])
  IN [i \in 1..Len(all) |-> [cb |-> all[i], data |-> data]]

\* notifyListeners(cacheKey, data): the invocations made, in order.  forEach
\* walks the array that was registered when the round began (a handle called
\* during the round assigns a new array and leaves that one as it is).  An
\* exception thrown by a callback leaves forEach, so the last invocation made
\* is that of the first callback that throws.
notifyListeners(lst, key, data) ==
  LET cbs == lst[key]
      throwing == {i \in 1..Len(cbs) : cbs[i] \in Throwers}
      last == IF throwing = {} THEN Len(cbs)
              ELSE CHOOSE i \in throwing : \A j \in throwing : i <= j
  IN [i \in 1..last |-> [cb |-> cbs[i], data |-> data]]

\* The notification round ended with an exception.
Throws(invs) == invs # <<>> /\ invs[Len(invs)].cb \in Throwers

\* The error a failed remote call raises inside fetch.
FetchError(resp) ==
  IF resp.status = "notok" THEN <<"API Error: ">> \o resp.text ELSE resp.text

\* fetch that looks at the entry even when forceRefresh is set.
FetchBeginNoForce(mem, key, force, t) ==
  LET chk == isValidCache(mem, key, t)
  IN IF chk.valid
     THEN [hit |-> TRUE, memory |-> chk.memory, value |-> getCached(chk.memory, key)]
     ELSE [hit |-> FALSE, memory |-> chk.memory, value |-> None]

\* fetch, from the call to the first await (or to the return of a hit).
FetchBegin(mem, key, force, t) ==
  LET chk == isValidCache(mem, key, t)
  IN IF ~force /\ chk.valid
     THEN [hit |-> TRUE, memory |-> chk.memory, value |-> getCached(chk.memory, key)]
     ELSE [hit |-> FALSE, memory |-> IF force THEN mem ELSE chk.memory, value |-> None]

\* The success path with the callbacks invoked before the entry is stored.
RefreshNotifyFirst(mem, lst, key, ttl, data, t) ==
  LET invs == notifyListeners(lst, key, data)
      mem1 == setCached(mem, key, data, ttl, t)
      lst1 == [lst EXCEPT ![key] = RoundListeners(@, invs)]
  IN IF ~Throws(invs)
     THEN [type |-> "return", memory |-> mem1, value |-> Some(data),
           err |-> <<>>, notified |-> invs, seen |-> getCached(mem, key),
           eff |-> {<<"set", key>>}, listeners |-> lst1]
     ELSE IF IsSome(mem[key])
     THEN [type |-> "return", memory |-> mem, value |-> Some(The(mem[key]).data),
           err |-> <<>>, notified |-> invs, seen |-> getCached(mem, key),
           eff |-> {}, listeners |-> lst1]
     ELSE [type |-> "throw", memory |-> mem, value |-> None,
           err |-> <<"Error thrown by a callback">>, notified |-> invs,
           seen |-> getCached(mem, key), eff |-> {}, listeners |-> lst1]

\* The success path of fetch: setCached, then notifyListeners, then the
\* return of data; seen is what a callback reads from the cache for the key.
\* An exception thrown by a callback is caught by the catch block, which
\* finds the entry stored just before and returns its data.
Refresh(mem, lst, key, ttl, data, t) ==
  LET mem1 == setCached(mem, key, data, ttl, t)
      invs == notifyListeners(lst, key, data)
  IN [type |-> "return", memory |-> mem1,
      value |-> IF Throws(invs) THEN Some(The(mem1[key]).data) ELSE Some(data),
      err |-> <<>>, notified |-> invs, seen |-> getCached(mem1, key),
      eff |-> {<<"set", key>>},
      listeners |-> [lst EXCEPT ![key] = RoundListeners(@, invs)]]

\* A catch block that stores the stale payload again, with a new expiry, and
\* notifies the subscribers of it.
FallbackRenew(mem, lst, key, ttl, resp, t) ==
  LET staleData == mem[key]
  IN IF IsSome(staleData)
     THEN [type |-> "return",
           memory |-> setCached(mem, key, The(staleData).data, ttl, t),
           value |-> Some(The(staleData).data), err |-> <<>>,
           notified |-> notifyListeners(lst, key, The(staleData).data),
           seen |-> None, eff |-> {<<"set", key>>}, listeners |-> lst]
     ELSE [type |-> "throw", memory |-> mem, value |-> None,
           err |-> FetchError(resp), notified |-> <<>>, seen |-> None, eff |-> {},
           listeners |-> lst]

\* The catch block of fetch after a failed remote call: the stale payload
\* when an entry is there, the error otherwise.
Fallback(mem, lst, key, ttl, resp, t) ==
  LET staleData == mem[key]
  IN IF IsSome(staleData)
     THEN [type |-> "return", memory |-> mem, value |-> Some(The(staleData).data),
           err |-> <<>>, notified |-> <<>>, seen |-> None, eff |-> {}, listeners |-> lst]
     ELSE [type |-> "throw", memory |-> mem, value |-> None,
           err |-> FetchError(resp), notified |-> <<>>, seen |-> None, eff |-> {},
           listeners |-> lst]

\* fetch whose catch block resolves with getCached(key) instead of rethrowing.
FetchEndNull(mem, lst, key, ttl, resp, t) ==
  IF resp.status = "ok"
  THEN Refresh(mem, lst, key, ttl, resp.body, t)
  ELSE [type |-> "return", memory |-> mem, value |-> getCached(mem, key),
        err |-> <<>>, notified |-> <<>>, seen |-> None, eff |-> {}, listeners |-> lst]

\* fetch, from the remote response to its settlement.
FetchEnd(mem, lst, key, ttl, resp, t) ==
  IF resp.status = "ok"
  THEN Refresh(mem, lst, key, ttl, resp.body, t)
  ELSE Fallback(mem, lst, key, ttl, resp, t)



\* The stale flags that remain once the store is mem1: an absent entry has none.
Keep(mem1, flags) == [k \in Keys |-> IsSome(mem1[k]) /\ flags[k]]

\* ------------------------------------------------------- remote transport
Has(row, f) == f \in DOMAIN row

\* { ...a, ...b }
Merge(a, b) ==
  [f \in DOMAIN a \cup DOMAIN b |-> IF f \in DOMAIN b THEN b[f] ELSE a[f]]

Matches(row, sel) == Has(row, sel[1]) /\ row[sel[1]] = sel[2]

RECURSIVE Remove(_, _)
Remove(rows, sel) ==
  IF rows = <<>> THEN <<>>
  ELSE IF Matches(Head(rows), sel) THEN Remove(Tail(rows), sel)
  ELSE <<Head(rows)>> \o Remove(Tail(rows), sel)

CountMatches(rows, sel) == Cardinality({i \in 1..Len(rows) : Matches(rows[i], sel)})

\* What the spreadsheet service does with a request it accepts.
Apply(rows, req) ==
  CASE req.method = "GET" -> [rows |-> rows, body |-> rows]
    [] req.method = "POST" ->
         [rows |-> Append(rows, req.body), body |-> <<[created |-> 1]>>]
    [] req.method = "PUT" ->
         [rows |-> [i \in 1..Len(rows) |->
                      IF Matches(rows[i], req.sel) THEN Merge(rows[i], req.body) ELSE rows[i]],
          body |-> <<[updated |-> CountMatches(rows, req.sel)]>>]
    [] req.method = "DELETE" ->
         [rows |-> Remove(rows, req.sel), body |-> <<[deleted |-> CountMatches(rows, req.sel)]>>]

FailureText(status) ==
  IF status = "notok" THEN <<"Too Many Requests">> ELSE <<"TypeError: Failed to fetch">>

\* A remote read that fetch issues once more after its first failure.
RespondRetry(t, status) ==
  IF status # "ok" /\ tasks[t].pc = "await" /\ tasks[t].req.method = "GET"
     /\ tasks[t].calls < 2
  THEN /\ tasks' = [tasks EXCEPT ![t].calls = @ + 1]
       /\ ev' = NoEv
       /\ UNCHANGED <<now, memory, listeners, sheet, stale>>
  ELSE
    /\ tasks[t].pc = "await"
    /\ LET req == tasks[t].req IN
       IF status = "ok"
       THEN LET res == Apply(sheet[req.res], req)
                mut == req.method # "GET"
            IN /\ sheet' = [sheet EXCEPT ![req.res] = res.rows]
               /\ tasks' = [u \in DOMAIN tasks |->
                    IF u = t
                    THEN [tasks[t] EXCEPT !.pc = "resp",
                            !.resp = [status |-> "ok", body |-> res.body, text |-> <<>>, sup |-> FALSE]]
                    ELSE IF mut /\ tasks[u].pc = "resp" /\ tasks[u].req.method = "GET"
                            /\ tasks[u].req.res = req.res /\ tasks[u].resp.status = "ok"
                         THEN [tasks[u] EXCEPT !.resp.sup = TRUE]
                         ELSE tasks[u]]
               /\ stale' = Keep(memory, IF mut THEN [stale EXCEPT ![KeyOf(req.res)] = TRUE]
                                        ELSE stale)
       ELSE /\ tasks' = [tasks EXCEPT ![t].pc = "resp",
                           ![t].resp = [status |-> status, body |-> <<>>,
                                        text |-> FailureText(status), sup |-> FALSE]]
            /\ UNCHANGED <<sheet, stale>>
    /\ ev' = NoEv
    /\ UNCHANGED <<now, memory, listeners>>

\* The remote call of task t settles: the service accepts the request
\* ("ok"), answers a non-success status ("notok"), or the transport fails
\* ("reject").  A mutation supersedes every copy of the sheet read before it.
Respond(t, status) ==
  /\ tasks[t].pc = "await"
  /\ LET req == tasks[t].req IN
     IF status = "ok"
     THEN LET res == Apply(sheet[req.res], req)
              mut == req.method # "GET"
          IN /\ sheet' = [sheet EXCEPT ![req.res] = res.rows]
             /\ tasks' = [u \in DOMAIN tasks |->
                  IF u = t
                  THEN [tasks[t] EXCEPT !.pc = "resp",
                          !.resp = [status |-> "ok", body |-> res.body, text |-> <<>>, sup |-> FALSE]]
                  ELSE IF mut /\ tasks[u].pc = "resp" /\ tasks[u].req.method = "GET"
                          /\ tasks[u].req.res = req.res /\ tasks[u].resp.status = "ok"
                       THEN [tasks[u] EXCEPT !.resp.sup = TRUE]
                       ELSE tasks[u]]
             /\ stale' = Keep(memory, IF mut THEN [stale EXCEPT ![KeyOf(req.res)] = TRUE]
                                      ELSE stale)
     ELSE /\ tasks' = [tasks EXCEPT ![t].pc = "resp",
                         ![t].resp = [status |-> status, body |-> <<>>,
                                      text |-> FailureText(status), sup |-> FALSE]]
          /\ UNCHANGED <<sheet, stale>>
  /\ ev' = NoEv
  /\ UNCHANGED <<now, memory, listeners>>

\* ---------------------------------------------------- dataManager: reads
\* The last successful forced refresh that invoked a callback, when nothing
\* but calls of unsubscribe handles and successful writes has settled since:
\* its key, its payload, the invocations it made and the callbacks
\* unsubscribed after it.
LastRefresh ==
  IF /\ ev.type = "return" /\ ev.op \in GetOps /\ ev.force /\ ev.status = "ok"
     /\ ev.notified # <<>>
  THEN Some([key |-> ev.key, value |-> The(ev.value), notified |-> ev.notified,
             unsub |-> <<>>])
  ELSE IF ev.type = "unsubscribe" \/ (ev.type = "return" /\ ev.op \in DirectWriteOps)
  THEN ev.prev
  ELSE None

\* The refresh a forced refresh of key follows.
PrevRefresh(key) ==
  IF IsSome(LastRefresh) /\ The(LastRefresh).key = key THEN LastRefresh ELSE None

GetRequest(r) == [method |-> "GET", res |-> r, sel |-> <<>>, body |-> NoRow]

\* const { ttl = DEFAULT_TTL, ... } = options
TtlOption(options) == IF IsSome(options) THEN The(options) ELSE DEFAULT_TTL

\* fetch that issues no remote call of its own while another fetch of the
\* key is in flight.
FetchWithShared(t, op, r, filters, ttl, force) ==
  /\ Free(t)
  /\ LET key == getCacheKey(ENDPOINTS[r], filters)
         b == FetchBegin(memory, key, force, now)
         shared == \E u \in Slots : tasks[u].pc \in {"await", "resp"} /\ tasks[u].op \in GetOps
                                     /\ tasks[u].key = key
         call == [IdleTask EXCEPT !.op = op, !.key = key, !.ttl = TtlOption(ttl),
                    !.force = force, !.ent0 = memory[key], !.now0 = now, !.mem0 = memory]
     IN /\ memory' = b.memory
        /\ stale' = Keep(b.memory, stale)
        /\ IF b.hit \/ shared
           THEN /\ tasks' = tasks
                /\ ev' = Settled("return", call, b.value, <<>>, memory[key], <<>>)
           ELSE /\ tasks' = [tasks EXCEPT ![t] =
                               [call EXCEPT !.pc = "await", !.req = GetRequest(r), !.calls = 1]]
                /\ ev' = NoEv
  /\ UNCHANGED <<now, listeners, sheet>>

\* apiCache.fetch(ENDPOINTS[r], { ttl, forceRefresh, filters }) called by
\* op: the call, up to the return of a hit or to the await of the remote
\* read.  The filters enter the key and nothing else: the remote read is that
\* of the endpoint.
FetchWith(t, op, r, filters, ttl, force) ==
  /\ Free(t)
  /\ LET key == getCacheKey(ENDPOINTS[r], filters)
         b == FetchBegin(memory, key, force, now)
         after == ev.type = "invalidate" /\ ev.key = key
         call == [IdleTask EXCEPT !.op = op, !.key = key, !.ttl = TtlOption(ttl),
                    !.force = force, !.ent0 = memory[key], !.now0 = now, !.mem0 = memory,
                    !.postInv = after, !.invEnt = IF after THEN ev.ent0 ELSE None,
                    !.lstC = IF ev.type = "clear"
                            THEN Some([listeners |-> listeners, memory |-> ev.mem0])
                            ELSE None,
                    !.prev = IF force THEN PrevRefresh(key) ELSE None,
                    !.eff = IF b.memory # memory THEN {<<"evict", key>>} ELSE {}]
     IN /\ memory' = b.memory
        /\ stale' = Keep(b.memory, stale)
        /\ IF b.hit
           THEN /\ tasks' = tasks
                /\ ev' = Settled("return", call, b.value, <<>>, memory[key], <<>>)
           ELSE /\ tasks' = [tasks EXCEPT ![t] =
                               [call EXCEPT !.pc = "await", !.req = GetRequest(r), !.calls = 1]]
                /\ ev' = NoEv
  /\ UNCHANGED <<now, listeners, sheet>>

\* apiCache.fetch(ENDPOINTS[r], { ttl, forceRefresh })
FetchStart(t, op, r, ttl, force) == FetchWith(t, op, r, EmptyFilters, ttl, force)

\* getMembers / getTransactions / getLoans (forceRefresh)
GetStart(t, r, force) == FetchStart(t, GetOpOf[r], r, Some(CACHE_TTL[r]), force)

\* apiCache.fetch(ENDPOINTS[r]) with no options.
Fetch(t, r) == FetchStart(t, "fetch", r, None, FALSE)

\* A write-back that appends the response to the payload already stored.
GetFinishMerge(t) ==
  /\ tasks[t].op \in GetOps
  /\ tasks[t].pc = "resp"
  /\ LET task == tasks[t]
         e == FetchEnd(memory, listeners, task.key, task.ttl, task.resp, now)
         merged == IF e.eff # {} /\ IsSome(memory[task.key])
                   THEN [e.memory EXCEPT ![task.key] =
                           Some([The(@) EXCEPT !.data = The(memory[task.key]).data \o @])]
                   ELSE e.memory
     IN /\ memory' = merged
        /\ stale' = Keep(merged, IF e.eff # {} THEN [stale EXCEPT ![task.key] = task.resp.sup]
                                 ELSE stale)
        /\ ev' = [Settled(e.type, [task EXCEPT !.eff = @ \cup e.eff], e.value, e.err,
                          memory[task.key], e.notified) EXCEPT !.seen = e.seen]
  /\ tasks' = [tasks EXCEPT ![t] = IdleTask]
  /\ listeners' = FetchEnd(memory, listeners, tasks[t].key, tasks[t].ttl, tasks[t].resp,
                         now).listeners
  /\ UNCHANGED <<now, sheet>>

\* The rest of fetch once the remote read has settled.
GetFinish(t) ==
  /\ tasks[t].op \in GetOps
  /\ tasks[t].pc = "resp"
  /\ LET task == tasks[t]
         e == FetchEnd(memory, listeners, task.key, task.ttl, task.resp, now)
     IN /\ memory' = e.memory
        /\ stale' = Keep(e.memory, IF e.eff # {} THEN [stale EXCEPT ![task.key] = task.resp.sup]
                                   ELSE stale)
        /\ ev' = [Settled(e.type, [task EXCEPT !.eff = @ \cup e.eff], e.value, e.err,
                          memory[task.key], e.notified) EXCEPT !.seen = e.seen]
  /\ tasks' = [tasks EXCEPT ![t] = IdleTask]
  /\ listeners' = FetchEnd(memory, listeners, tasks[t].key, tasks[t].ttl, tasks[t].resp,
                         now).listeners
  /\ UNCHANGED <<now, sheet>>

\* ---------------------------------------------- startup: preloadData
\* Promise.all over promises in the given states.
PromiseAll(ps) ==
  IF \E i \in 1..Len(ps) : ps[i] = "rejected" THEN "rejected"
  ELSE IF \A i \in 1..Len(ps) : ps[i] = "fulfilled" THEN "fulfilled"
  ELSE "pending"

\* preloadData whose catch block rethrows.
preloadDataRethrow(all) ==
  CASE all = "pending" -> "pending"
    [] all = "fulfilled" -> "fulfilled"
    [] all = "rejected" -> "rejected"

\* preloadData: await Promise.all([...]) inside try/catch; the catch block
\* logs and returns.
preloadData(all) ==
  CASE all = "pending" -> "pending"
    [] all = "fulfilled" -> "fulfilled"
    [] all = "rejected" -> "fulfilled"

\* The render called without waiting for the promise.
RenderAtOnce(promise) == TRUE

\* promise.finally(() => root.render(...)): the callback runs once the
\* promise has settled, either way.
Render(promise) == promise # "pending"

BatchStates(tsk) == [i \in 1..3 |-> tsk[i].pc]
BatchCalls(tsk) == tsk[1].calls + tsk[2].calls + tsk[3].calls

\* One read of the batch, from its call to its first await or to its return.
BatchCall(r, b, mem) ==
  [IdleTask EXCEPT !.op = GetOpOf[r], !.key = KeyOf(r), !.ttl = CACHE_TTL[r],
     !.batch = TRUE, !.ent0 = mem[KeyOf(r)], !.now0 = now, !.mem0 = mem,
     !.pc = IF b.hit THEN "fulfilled" ELSE "await",
     !.req = IF b.hit THEN NoReq ELSE GetRequest(r),
     !.calls = IF b.hit THEN 0 ELSE 1, !.list = b.value]

\* The settlement of preloadData as its caller sees it.
PreloadEvent(tsk) ==
  [NoEv EXCEPT !.op = "preloadData",
     !.type = IF preloadData(PromiseAll(BatchStates(tsk))) = "fulfilled"
              THEN "return" ELSE "throw",
     !.status = PromiseAll(BatchStates(tsk)), !.calls = BatchCalls(tsk)]

\* index.js: preloadData() is called; the three reads run to their first
\* await in the order of the array.
Startup ==
  /\ \A t \in DOMAIN tasks : tasks[t].pc = "idle"
  /\ LET b1 == FetchBegin(memory, KeyOf("MEMBERS"), FALSE, now)
         b2 == FetchBegin(b1.memory, KeyOf("TRANSACTIONS"), FALSE, now)
         b3 == FetchBegin(b2.memory, KeyOf("LOANS"), FALSE, now)
         tasks1 == [t \in DOMAIN tasks |->
                      CASE t = 1 -> BatchCall("MEMBERS", b1, memory)
                        [] t = 2 -> BatchCall("TRANSACTIONS", b2, b1.memory)
                        [] t = 3 -> BatchCall("LOANS", b3, b2.memory)
                        [] OTHER -> [IdleTask EXCEPT !.op = "preloadData", !.pc = "await"]]
         promise == preloadData(PromiseAll(BatchStates(tasks1)))
     IN /\ memory' = b3.memory
        /\ stale' = Keep(b3.memory, stale)
        /\ tasks' = IF Render(promise)
                     THEN [tasks1 EXCEPT ![Main].pc = "rendered"] ELSE tasks1
        /\ ev' = IF promise # "pending" THEN PreloadEvent(tasks1)
                  ELSE [NoEv EXCEPT !.type = "call", !.op = "preloadData"]
  /\ UNCHANGED <<now, listeners, sheet>>

\* The rest of a read of the batch once its remote call has settled, with
\* what follows in the same turn: Promise.all settles on the first rejection
\* or on the last fulfilment, preloadData returns, the finally callback runs.
BatchFinish(t) ==
  /\ tasks[t].batch
  /\ tasks[t].pc = "resp"
  /\ LET task == tasks[t]
         e == FetchEnd(memory, listeners, task.key, task.ttl, task.resp, now)
         tasks1 == [tasks EXCEPT ![t].pc = IF e.type = "return" THEN "fulfilled"
                                           ELSE "rejected",
                                 ![t].eff = @ \cup e.eff]
         promise == preloadData(PromiseAll(BatchStates(tasks1)))
         settles == tasks[Main].pc = "await" /\ promise # "pending"
     IN /\ memory' = e.memory
        /\ stale' = Keep(e.memory, IF e.eff # {} THEN [stale EXCEPT ![task.key] = task.resp.sup]
                                   ELSE stale)
        /\ tasks' = IF tasks[Main].pc = "await" /\ Render(promise)
                     THEN [tasks1 EXCEPT ![Main].pc = "rendered"] ELSE tasks1
        /\ ev' = IF settles THEN PreloadEvent(tasks1)
                  ELSE Settled(e.type, tasks1[t], e.value, e.err, memory[task.key], e.notified)
  /\ listeners' = FetchEnd(memory, listeners, tasks[t].key, tasks[t].ttl, tasks[t].resp,
                         now).listeners
  /\ UNCHANGED <<now, sheet>>

\* --------------------------------------------------- dataManager: writes
\* addLoan invalidating the transactions entry instead of the loans entry.
InvalidatedByWrongKey(op) ==
  CASE op = "addMember" -> <<"MEMBERS">>
    [] op = "addTransaction" -> <<"TRANSACTIONS">>
    [] op = "updateLoan" -> <<"LOANS">>
    [] op = "addLoan" -> <<"TRANSACTIONS">>
    [] op = "deleteMember" -> <<"MEMBERS", "TRANSACTIONS">>
    [] op = "updateMember" -> <<"MEMBERS">>
    [] op = "deleteTransactions" -> <<"TRANSACTIONS">>
    [] op = "deleteTransactionById" -> <<>>

\* deleteMember invalidating the members entry only.
InvalidatedByMembersOnly(op) ==
  CASE op = "addMember" -> <<"MEMBERS">>
    [] op = "addTransaction" -> <<"TRANSACTIONS">>
    [] op = "updateLoan" -> <<"LOANS">>
    [] op = "addLoan" -> <<"LOANS">>
    [] op = "deleteMember" -> <<"MEMBERS">>
    [] op = "updateMember" -> <<"MEMBERS">>
    [] op = "deleteTransactions" -> <<"TRANSACTIONS">>
    [] op = "deleteTransactionById" -> <<>>

\* The cache entries a successful write invalidates, in the order of the code.
InvalidatedBy(op) ==
  CASE op = "addMember" -> <<"MEMBERS">>
    [] op = "addTransaction" -> <<"TRANSACTIONS">>
    [] op = "updateLoan" -> <<"LOANS">>
    [] op = "addLoan" -> <<"LOANS">>
    [] op = "deleteMember" -> <<"MEMBERS", "TRANSACTIONS">>
    [] op = "updateMember" -> <<"MEMBERS">>
    [] op = "deleteTransactions" -> <<"TRANSACTIONS">>
    [] op = "deleteTransactionById" -> <<>>

FailMessage(op) ==
  CASE op = "addMember" -> <<"Failed to add member">>
    [] op = "addTransaction" -> <<"Failed to add transaction">>
    [] op = "updateLoan" -> <<"Failed to update loan">>
    [] op = "addLoan" -> <<"Failed to add loan">>
    [] op = "deleteMember" -> <<"Failed to delete member">>
    [] op = "updateMember" -> <<"Failed to update member">>
    [] op = "deleteTransactions" -> <<"Failed to delete transactions">>
    [] op = "deleteTransactionById" -> <<"Failed to delete transaction">>

RECURSIVE InvalidateAll(_, _)
InvalidateAll(mem, rs) ==
  IF rs = <<>> THEN mem
  ELSE InvalidateAll(invalidate(mem, ENDPOINTS[Head(rs)], EmptyFilters), Tail(rs))

InvalidateEffects(mem, rs) ==
  {<<IF IsSome(mem[KeyOf(rs[i])]) THEN "inv" ELSE "inv0", KeyOf(rs[i])>> : i \in 1..Len(rs)}

\* A write from its call to the await of its remote mutation.
WriteStart(t, op, req) ==
  /\ Free(t)
  /\ req.method = "POST" => Len(sheet[req.res]) < MaxRows
  /\ tasks' = [tasks EXCEPT ![t] =
       [IdleTask EXCEPT !.op = op, !.pc = "await", !.req = req, !.now0 = now,
          !.mem0 = memory, !.calls = 1, !.prev = LastRefresh]]
  /\ ev' = NoEv
  /\ UNCHANGED <<now, memory, listeners, sheet, stale>>

addMember(t, memberData) ==
  WriteStart(t, "addMember",
             [method |-> "POST", res |-> "MEMBERS", sel |-> <<>>, body |-> memberData])

addTransaction(t, transactionData) ==
  WriteStart(t, "addTransaction",
             [method |-> "POST", res |-> "TRANSACTIONS", sel |-> <<>>, body |-> transactionData])

updateLoan(t, loanId, loanData) ==
  WriteStart(t, "updateLoan",
             [method |-> "PUT", res |-> "LOANS", sel |-> <<"Id", loanId>>, body |-> loanData])

addLoan(t, loanData) ==
  WriteStart(t, "addLoan",
             [method |-> "POST", res |-> "LOANS", sel |-> <<>>, body |-> loanData])

deleteMember(t, memberName) ==
  WriteStart(t, "deleteMember",
             [method |-> "DELETE", res |-> "MEMBERS", sel |-> <<"Name", memberName>>,
              body |-> NoRow])

deleteTransactions(t, memberName) ==
  WriteStart(t, "deleteTransactions",
             [method |-> "DELETE", res |-> "TRANSACTIONS", sel |-> <<"Name", memberName>>,
              body |-> NoRow])

deleteTransactionById(t, id) ==
  WriteStart(t, "deleteTransactionById",
             [method |-> "DELETE", res |-> "TRANSACTIONS", sel |-> <<"Id", id>>,
              body |-> NoRow])

\* A write that invalidates before it looks at the status.
WriteEndEager(mem, op, resp) ==
  IF resp.status = "reject"
  THEN [type |-> "throw", memory |-> mem, value |-> None, err |-> resp.text, eff |-> {}]
  ELSE IF resp.status # "ok"
  THEN [type |-> "throw", memory |-> InvalidateAll(mem, InvalidatedBy(op)), value |-> None,
        err |-> FailMessage(op), eff |-> InvalidateEffects(mem, InvalidatedBy(op))]
  ELSE [type |-> "return", memory |-> InvalidateAll(mem, InvalidatedBy(op)),
        value |-> Some(resp.body), err |-> <<>>,
        eff |-> InvalidateEffects(mem, InvalidatedBy(op))]

\* The rest of a write once its remote mutation has settled: a rejected
\* transport or a non-success status throws before any invalidation.
WriteEnd(mem, op, resp) ==
  IF resp.status = "reject"
  THEN [type |-> "throw", memory |-> mem, value |-> None, err |-> resp.text, eff |-> {}]
  ELSE IF resp.status # "ok"
  THEN [type |-> "throw", memory |-> mem, value |-> None, err |-> FailMessage(op), eff |-> {}]
  ELSE [type |-> "return", memory |-> InvalidateAll(mem, InvalidatedBy(op)),
        value |-> Some(resp.body), err |-> <<>>,
        eff |-> InvalidateEffects(mem, InvalidatedBy(op))]

\* A write that, once it has invalidated, invokes the subscribers of the
\* resource it wrote with the body of the response.
WriteFinishNotify(t) ==
  /\ tasks[t].op \in DirectWriteOps
  /\ tasks[t].pc = "resp"
  /\ LET task == tasks[t]
         e == WriteEnd(memory, task.op, task.resp)
     IN /\ memory' = e.memory
        /\ stale' = Keep(e.memory, stale)
        /\ ev' = Settled(e.type, [task EXCEPT !.eff = @ \cup e.eff], e.value, e.err,
                         None,
                         IF e.type = "return"
                         THEN notifyListeners(listeners, KeyOf(task.req.res), task.resp.body)
                         ELSE <<>>)
  /\ tasks' = [tasks EXCEPT ![t] = IdleTask]
  /\ UNCHANGED <<now, listeners, sheet>>

\* The end of a write: it settles the call and invokes no callback.
WriteFinish(t) ==
  /\ tasks[t].op \in DirectWriteOps
  /\ tasks[t].pc = "resp"
  /\ LET task == tasks[t]
         e == WriteEnd(memory, task.op, task.resp)
     IN /\ memory' = e.memory
        /\ stale' = Keep(e.memory, stale)
        /\ ev' = Settled(e.type, [task EXCEPT !.eff = @ \cup e.eff], e.value, e.err,
                         None, <<>>)
  /\ tasks' = [tasks EXCEPT ![t] = IdleTask]
  /\ UNCHANGED <<now, listeners, sheet>>

\* ---------------------------------------------- dataManager.updateMember
\* The Id test left out.
TruthyAny(row, f) == TRUE

\* !row[f] is false: the field is there and is not 0 (Ids are numbers here).
Truthy(row, f) == Has(row, f) /\ row[f] # 0

\* `${member.Id}`: an undefined Id selects no row; 0 stands for it.
IdOf(row) == IF Has(row, "Id") THEN row.Id ELSE 0

\* members.find((m) => m.Name === memberName)
FindByName(rows, name) ==
  LET hits == {i \in 1..Len(rows) : rows[i].Name = name}
  IN IF hits = {} THEN None
     ELSE Some(rows[CHOOSE i \in hits : \A j \in hits : i <= j])

NotFoundError(name) == <<"Member \"", name, "\" not found or missing Id">>

\* updateMember up to the await inside getMembers(true).
UpdStart(t, memberName, updates) ==
  /\ Free(t)
  /\ LET key == getCacheKey(ENDPOINTS["MEMBERS"], EmptyFilters)
         b == FetchBegin(memory, key, TRUE, now)
     IN /\ ~b.hit
        /\ memory' = b.memory
        /\ stale' = Keep(b.memory, stale)
        /\ tasks' = [tasks EXCEPT ![t] =
             [IdleTask EXCEPT !.op = "updateMember", !.pc = "await", !.key = key,
                !.ttl = CACHE_TTL["MEMBERS"], !.force = TRUE, !.name = memberName,
                !.updates = updates, !.req = GetRequest("MEMBERS"),
                !.ent0 = memory[key], !.now0 = now, !.mem0 = memory, !.calls = 1]]
  /\ ev' = NoEv
  /\ UNCHANGED <<now, listeners, sheet>>

\* updateMember from the settlement of getMembers(true) to the await of
\* the PUT, or to the error that ends it.
UpdLookup(t) ==
  /\ tasks[t].op = "updateMember"
  /\ tasks[t].pc = "resp"
  /\ tasks[t].req.method = "GET"
  /\ LET task == tasks[t]
         e == FetchEnd(memory, listeners, task.key, task.ttl, task.resp, now)
         task1 == [task EXCEPT !.eff = @ \cup e.eff, !.list = e.value]
         member == IF e.type = "return" THEN FindByName(The(e.value), task.name) ELSE None
     IN /\ memory' = e.memory
        /\ stale' = Keep(e.memory, IF e.eff # {} THEN [stale EXCEPT ![task.key] = task.resp.sup]
                                   ELSE stale)
        /\ IF e.type = "throw"
           THEN /\ tasks' = [tasks EXCEPT ![t] = IdleTask]
                /\ ev' = Settled("throw", task1, None, e.err, memory[task.key], e.notified)
           ELSE IF ~IsSome(member) \/ ~Truthy(The(member), "Id")
           THEN /\ tasks' = [tasks EXCEPT ![t] = IdleTask]
                /\ ev' = Settled("throw", task1, None, NotFoundError(task.name),
                                 memory[task.key], e.notified)
           ELSE /\ tasks' = [tasks EXCEPT ![t] =
                     [task1 EXCEPT !.pc = "await", !.calls = @ + 1, !.resp = NoResp,
                        !.req = [method |-> "PUT", res |-> "MEMBERS",
                                 sel |-> <<"Id", IdOf(The(member))>>,
                                 body |-> Merge(The(member), task.updates)]]]
                /\ ev' = [NoEv EXCEPT !.type = "refresh", !.op = "updateMember",
                            !.key = task.key, !.notified = e.notified, !.value = e.value]
  /\ listeners' = FetchEnd(memory, listeners, tasks[t].key, tasks[t].ttl, tasks[t].resp,
                         now).listeners
  /\ UNCHANGED <<now, sheet>>

\* updateMember once the PUT has settled.
UpdFinish(t) ==
  /\ tasks[t].op = "updateMember"
  /\ tasks[t].pc = "resp"
  /\ tasks[t].req.method = "PUT"
  /\ LET task == tasks[t]
         e == WriteEnd(memory, "updateMember", task.resp)
     IN /\ memory' = e.memory
        /\ stale' = Keep(e.memory, stale)
        /\ ev' = Settled(e.type, [task EXCEPT !.eff = @ \cup e.eff], e.value, e.err,
                         None, <<>>)
  /\ tasks' = [tasks EXCEPT ![t] = IdleTask]
  /\ UNCHANGED <<now, listeners, sheet>>

\* -------------------------------------------- dataManager: local filters
\* The characters of the names that occur.
Chars(name) ==
  CASE name = "Alice" -> <<"A", "l", "i", "c", "e">>
    [] name = "Bob" -> <<"B", "o", "b">>
    [] OTHER -> <<>>

\* A conversion that leaves every character as it is.
toLowerCaseNone(str) == str

\* String.prototype.toLowerCase, on the characters that occur.
toLowerCase(str) ==
  [i \in 1..Len(str) |->
     CASE str[i] = "A" -> "a" [] str[i] = "B" -> "b" [] str[i] = "L" -> "l"
       [] OTHER -> str[i]]

\* String.prototype.includes
includes(str, q) ==
  \E i \in 1..(Len(str) - Len(q) + 1) : SubSeq(str, i, i + Len(q) - 1) = q

\* A read of the entry that validates it first, as fetch does.
LocalReadValidated(mem, key, t) ==
  LET chk == isValidCache(mem, key, t)
  IN [data |-> IF chk.valid THEN getCached(chk.memory, key) ELSE None,
      memory |-> chk.memory]

\* apiCache.getCached(apiCache.getCacheKey(endpoint)): what the filter reads
\* and the store it leaves.
LocalRead(mem, key, t) == [data |-> getCached(mem, key), memory |-> mem]

\* A local filter returns: result is null (None) or the value returned.
LocalReturn(op, name, query, rd, result) ==
  /\ memory' = rd.memory
  /\ stale' = Keep(rd.memory, stale)
  /\ ev' = [NoEv EXCEPT !.type = "return", !.op = op, !.name = name, !.query = query,
              !.value = result]
  /\ UNCHANGED <<now, listeners, sheet, tasks>>

searchMembers(query) ==
  LET rd == LocalRead(memory, getCacheKey(ENDPOINTS["MEMBERS"], EmptyFilters), now)
      q == toLowerCase(query)
  IN LocalReturn("searchMembers", "", query, rd,
       IF ~IsSome(rd.data) THEN Some(<<>>)
       ELSE IF query = <<>> THEN rd.data
       ELSE Some(SelectSeq(The(rd.data),
                           LAMBDA m : /\ Has(m, "Name") /\ m.Name # ""
                                      /\ includes(toLowerCase(Chars(m.Name)), q))))

searchTransactions(memberName) ==
  LET rd == LocalRead(memory, getCacheKey(ENDPOINTS["TRANSACTIONS"], EmptyFilters), now)
  IN LocalReturn("searchTransactions", memberName, <<>>, rd,
       IF ~IsSome(rd.data) THEN Some(<<>>)
       ELSE IF memberName = "" THEN rd.data
       ELSE Some(SelectSeq(The(rd.data), LAMBDA x : x.Name = memberName)))

getLoanByMember(memberName) ==
  LET rd == LocalRead(memory, getCacheKey(ENDPOINTS["LOANS"], EmptyFilters), now)
  IN LocalReturn("getLoanByMember", memberName, <<>>, rd,
       IF ~IsSome(rd.data) THEN None ELSE FindByName(The(rd.data), memberName))

getLoansByMember(memberName) ==
  LET rd == LocalRead(memory, getCacheKey(ENDPOINTS["LOANS"], EmptyFilters), now)
  IN LocalReturn("getLoansByMember", memberName, <<>>, rd,
       IF ~IsSome(rd.data) THEN Some(<<>>)
       ELSE Some(SelectSeq(The(rd.data), LAMBDA l : l.Name = memberName)))

\* ------------------------------------------- AddLoanEntry.handleConfirm
\* The member lists the component can hold: the list of the first read has
\* no Inactive rows, the list a members subscriber was given can have them.
ConfirmMembers ==
  {<<>>,
   <<[Name |-> "Alice", Status |-> "Active"]>>,
   <<[Name |-> "Alice", Status |-> "Inactive"]>>,
   <<[Name |-> "Bob", Status |-> "Active"], [Name |-> "Alice", Status |-> "Active"]>>}

\* members.find((m) => m.Name === formData.Name)
findMember(members, name) ==
  LET hits == SelectSeq(members, LAMBDA m : m.Name = name)
  IN IF hits = <<>> THEN None ELSE Some(Head(hits))

\* loans.some((l) => l.Name === formData.Name && l.Status === "Active")
hasActiveLoan(loans, name) ==
  \E i \in 1..Len(loans) : loans[i].Name = name /\ loans[i].Status = "Active"

\* The event of a handleConfirm run that has ended, with its message.
ConfirmEnded(call, message, notified) ==
  [NoEv EXCEPT !.type = "return", !.op = "handleConfirm", !.name = call.name,
     !.key = call.key, !.list = call.list, !.err = message, !.notified = notified,
     !.calls = call.calls]

\* handleConfirm once it has the loans: it ends with a message when the
\* member has an active loan among them, and calls addLoan otherwise.
ConfirmLoans(t, call, loans, notified) ==
  IF hasActiveLoan(loans, call.name)
  THEN /\ tasks' = [tasks EXCEPT ![t] = IdleTask]
       /\ ev' = ConfirmEnded(call, <<"This member already has an active loan.">>, notified)
  ELSE /\ Len(sheet["LOANS"]) < MaxSheet
       /\ tasks' = [tasks EXCEPT ![t] =
            [call EXCEPT !.pc = "await", !.resp = NoResp, !.calls = @ + 1,
               !.req = [method |-> "POST", res |-> "LOANS", sel |-> <<>>,
                        body |-> [Name |-> call.name, Status |-> "Active"]]]]
       /\ ev' = [NoEv EXCEPT !.notified = notified]

\* handleConfirm with the member list and the form the component holds:
\* from the click to its first return or its first await.
handleConfirm(t, members, name) ==
  /\ Free(t)
  /\ LET member == findMember(members, name)
         key == KeyOf("LOANS")
         call == [IdleTask EXCEPT !.op = "handleConfirm", !.key = key,
                    !.ttl = CACHE_TTL["LOANS"], !.name = name, !.now0 = now,
                    !.ent0 = memory[key], !.mem0 = memory, !.list = Some(members)]
     IN IF ~IsSome(member) \/ The(member).Status = "Inactive"
        THEN /\ ev' = ConfirmEnded(call, <<"Inactive members cannot receive loans.">>, <<>>)
             /\ UNCHANGED <<memory, stale, tasks>>
        ELSE LET b == FetchBegin(memory, key, FALSE, now)
             IN /\ memory' = b.memory
                /\ stale' = Keep(b.memory, stale)
                /\ IF b.hit
                   THEN ConfirmLoans(t, call, The(b.value), <<>>)
                   ELSE /\ tasks' = [tasks EXCEPT ![t] =
                              [call EXCEPT !.pc = "await", !.req = GetRequest("LOANS"),
                                 !.calls = 1]]
                        /\ ev' = NoEv
  /\ UNCHANGED <<now, listeners, sheet>>

\* handleConfirm resumes when getLoans has settled.
handleConfirmLoans(t) ==
  /\ tasks[t].op = "handleConfirm"
  /\ tasks[t].pc = "resp"
  /\ tasks[t].req.method = "GET"
  /\ LET task == tasks[t]
         e == FetchEnd(memory, listeners, task.key, task.ttl, task.resp, now)
     IN /\ memory' = e.memory
        /\ stale' = Keep(e.memory, IF e.eff # {} THEN [stale EXCEPT ![task.key] = task.resp.sup]
                                   ELSE stale)
        /\ listeners' = e.listeners
        /\ IF e.type = "throw"
           THEN /\ tasks' = [tasks EXCEPT ![t] = IdleTask]
                /\ ev' = ConfirmEnded(task, <<"Error updating loan details.">>, e.notified)
           ELSE ConfirmLoans(t, task, The(e.value), e.notified)
  /\ UNCHANGED <<now, sheet>>

\* handleConfirm resumes when addLoan has settled.
handleConfirmAdded(t) ==
  /\ tasks[t].op = "handleConfirm"
  /\ tasks[t].pc = "resp"
  /\ tasks[t].req.method = "POST"
  /\ LET task == tasks[t]
         e == WriteEnd(memory, "addLoan", task.resp)
     IN /\ memory' = e.memory
        /\ stale' = Keep(e.memory, stale)
        /\ ev' = ConfirmEnded(task, IF e.type = "throw"
                                    THEN <<"Error updating loan details.">>
                                    ELSE <<"Loan added successfully!">>, <<>>)
  /\ tasks' = [tasks EXCEPT ![t] = IdleTask]
  /\ UNCHANGED <<now, listeners, sheet>>

\* ------------------------------------------- cache primitives and the clock
Invalidate(r) ==
  /\ memory' = invalidate(memory, ENDPOINTS[r], EmptyFilters)
  /\ stale' = Keep(memory', stale)
  /\ ev' = [NoEv EXCEPT !.type = "invalidate", !.key = getCacheKey(ENDPOINTS[r], EmptyFilters),
              !.ent0 = memory[getCacheKey(ENDPOINTS[r], EmptyFilters)]]
  /\ UNCHANGED <<now, listeners, sheet, tasks>>

\* apiCache.invalidate(ENDPOINTS[r], filters)
InvalidateWith(r, filters) ==
  /\ memory' = invalidate(memory, ENDPOINTS[r], filters)
  /\ stale' = Keep(memory', stale)
  /\ ev' = [NoEv EXCEPT !.type = "invalidate", !.res = r, !.filters = filters,
              !.key = getCacheKey(ENDPOINTS[r], filters),
              !.ent0 = memory[getCacheKey(ENDPOINTS[r], filters)]]
  /\ UNCHANGED <<now, listeners, sheet, tasks>>

\* invalidatePattern that removes only the entry whose key is the pattern.
invalidatePatternExact(mem, pattern) ==
  [k \in DOMAIN mem |-> IF k = pattern THEN None ELSE mem[k]]

\* invalidatePattern(pattern)
invalidatePattern(mem, pattern) ==
  [k \in DOMAIN mem |-> IF includes(k, pattern) THEN None ELSE mem[k]]

InvalidatePattern(pattern) ==
  /\ memory' = invalidatePattern(memory, pattern)
  /\ stale' = Keep(memory', stale)
  /\ ev' = [NoEv EXCEPT !.type = "invalidatePattern", !.pattern = pattern]
  /\ UNCHANGED <<now, listeners, sheet, tasks>>

Clear ==
  /\ memory' = clear(memory)
  /\ stale' = Keep(memory', stale)
  /\ ev' = [NoEv EXCEPT !.type = "clear", !.mem0 = memory]
  /\ UNCHANGED <<now, listeners, sheet, tasks>>

\* Bookkeeping of the calls in flight: a registration for key ends the
\* record of the refresh they follow.
AfterRegistration(key) ==
  [t \in DOMAIN tasks |->
     IF IsSome(tasks[t].prev) /\ The(tasks[t].prev).key = key
     THEN [tasks[t] EXCEPT !.prev = None] ELSE tasks[t]]

\* Bookkeeping of the calls in flight: callback cb of key was unsubscribed
\* after the refresh they follow.
AfterUnsubscribe(key, cb) ==
  [t \in DOMAIN tasks |->
     IF IsSome(tasks[t].prev) /\ The(tasks[t].prev).key = key
     THEN [tasks[t] EXCEPT !.prev = Some([The(@) EXCEPT !.unsub = Append(@, cb)])]
     ELSE tasks[t]]

\* The three registrations all made under the members key.
OnUpdateMembersKey(r, cb) ==
  /\ Len(listeners[KeyOf("MEMBERS")]) < MaxListeners
  /\ listeners' = [listeners EXCEPT ![KeyOf("MEMBERS")] = Append(@, cb)]
  /\ tasks' = AfterRegistration(KeyOf("MEMBERS"))
  /\ ev' = [NoEv EXCEPT !.type = "subscribe", !.key = KeyOf("MEMBERS")]
  /\ UNCHANGED <<now, memory, sheet, stale>>

\* onMembersUpdate / onTransactionsUpdate / onLoansUpdate (callback)
OnUpdate(r, cb) ==
  /\ Len(listeners[KeyOf(r)]) < MaxListeners
  /\ listeners' = [listeners EXCEPT ![KeyOf(r)] = Append(@, cb)]
  /\ tasks' = AfterRegistration(KeyOf(r))
  /\ ev' = [NoEv EXCEPT !.type = "subscribe", !.key = KeyOf(r)]
  /\ UNCHANGED <<now, memory, sheet, stale>>

\* The handle returned by onUpdate(KeyOf(r), cb) is called.  A handle exists
\* only for a callback that was registered; calling it when the callback is
\* no longer in the list changes nothing.
Unsubscribe(r, cb) ==
  /\ \E i \in 1..Len(listeners[KeyOf(r)]) : listeners[KeyOf(r)][i] = cb
  /\ listeners' = [listeners EXCEPT ![KeyOf(r)] = FilterOut(@, cb)]
  /\ ev' = [NoEv EXCEPT !.type = "unsubscribe", !.key = KeyOf(r), !.cb = cb,
              !.lst0 = listeners[KeyOf(r)],
              !.prev = IF IsSome(PrevRefresh(KeyOf(r)))
                       THEN Some([The(LastRefresh) EXCEPT !.unsub = Append(@, cb)])
                       ELSE LastRefresh]
  /\ tasks' = AfterUnsubscribe(KeyOf(r), cb)
  /\ UNCHANGED <<now, memory, sheet, stale>>

\* apiCache.getCacheKey(ENDPOINTS[r], filters)
GetCacheKey(r, filters) ==
  /\ ev' = [NoEv EXCEPT !.type = "key", !.res = r, !.filters = filters,
              !.key = getCacheKey(ENDPOINTS[r], filters)]
  /\ UNCHANGED <<now, memory, listeners, sheet, tasks, stale>>

Tick ==
  /\ now < MaxTime
  /\ now' = now + 1
  /\ ev' = NoEv
  /\ UNCHANGED <<memory, listeners, sheet, tasks, stale>>

\* ---------------------------------------------------------- specifications
\* The orchestrator: one call at a time, every read and every write.
Next ==
  \/ \E r \in Resources, force \in BOOLEAN : GetStart(1, r, force)
  \/ GetFinish(1)
  \/ \E status \in {"ok", "notok", "reject"} : Respond(1, status)
  \/ \E d \in MemberInputs : addMember(1, d)
  \/ \E d \in TransactionInputs : addTransaction(1, d)
  \/ \E id \in LoanIds, d \in LoanUpdates : updateLoan(1, id, d)
  \/ \E d \in LoanInputs : addLoan(1, d)
  \/ \E n \in Names : deleteMember(1, n)
  \/ WriteFinish(1)
  \/ \E n \in Names, u \in MemberUpdates : UpdStart(1, n, u)
  \/ UpdLookup(1)
  \/ UpdFinish(1)

Spec == Init /\ [][Next]_vars

\* The writes that invalidate their own resource, with subscribers.
NextFrame ==
  \/ \E r \in Resources : GetStart(1, r, FALSE)
  \/ GetFinish(1)
  \/ \E status \in {"ok", "notok"} : Respond(1, status)
  \/ \E d \in MemberInputs : addMember(1, d)
  \/ \E d \in TransactionInputs : addTransaction(1, d)
  \/ \E id \in LoanIds, d \in LoanUpdates : updateLoan(1, id, d)
  \/ \E d \in LoanInputs : addLoan(1, d)
  \/ WriteFinish(1)
  \/ \E r \in {"MEMBERS", "LOANS"}, cb \in Callbacks : OnUpdate(r, cb)

SpecFrame == Init /\ [][NextFrame]_vars

\* The cache over time: reads of two resources with different TTLs, a write
\* that changes what a refresh brings back, invalidation, clear, the clock.
NextCache ==
  \/ \E r \in {"MEMBERS", "TRANSACTIONS"}, force \in BOOLEAN : GetStart(1, r, force)
  \/ GetFinish(1)
  \/ \E status \in {"ok", "notok", "reject"} : Respond(1, status)
  \/ \E d \in TransactionInputs : addTransaction(1, d)
  \/ WriteFinish(1)
  \/ \E r \in {"MEMBERS", "TRANSACTIONS"} : Invalidate(r)
  \/ Clear
  \/ Tick

SpecCache == Init /\ [][NextCache]_vars

\* Two calls in flight on the loans resource.
NextRace ==
  \/ \E t \in Slots, force \in BOOLEAN : GetStart(t, "LOANS", force)
  \/ \E t \in Slots : GetFinish(t)
  \/ \E t \in Slots, status \in {"ok", "notok", "reject"} : Respond(t, status)
  \/ \E t \in Slots, d \in LoanInputs : addLoan(t, d)
  \/ \E t \in Slots : WriteFinish(t)

SpecRace == Init /\ [][NextRace]_vars

\* Subscribers: registrations, handles and refreshes of the members entry,
\* with a subscriber of the loans entry beside them.
NextNotify ==
  \/ \E force \in BOOLEAN : GetStart(1, "MEMBERS", force)
  \/ GetFinish(1)
  \/ \E status \in {"ok", "notok", "reject"} : Respond(1, status)
  \/ \E d \in MemberInputs : addMember(1, d)
  \/ WriteFinish(1)
  \/ Invalidate("MEMBERS")
  \/ \E cb \in MemberCallbacks : OnUpdate("MEMBERS", cb)
  \/ OnUpdate("LOANS", "setLoans")
  \/ \E cb \in MemberCallbacks : Unsubscribe("MEMBERS", cb)

SpecNotify == Init /\ [][NextNotify]_vars

\* Invalidation: entries of two resources with and without filters, their
\* subscribers, invalidate, invalidatePattern and clear.
KeyResources == {"MEMBERS", "LOANS"}
Patterns ==
  {<<>>, <<"?sheet=", "Loan Details">>, <<"_", "Status">>, <<"Transactions">>,
   getCacheKey(ENDPOINTS["MEMBERS"], EmptyFilters)}

NextInvalidate ==
  \/ \E r \in KeyResources, f \in KeyFilters : FetchWith(1, "fetch", r, f, None, FALSE)
  \/ GetFinish(1)
  \/ Respond(1, "ok")
  \/ \E r \in KeyResources, f \in KeyFilters : InvalidateWith(r, f)
  \/ \E s \in Patterns : InvalidatePattern(s)
  \/ Clear
  \/ OnUpdate("MEMBERS", "setData")

SpecInvalidate == Init /\ [][NextInvalidate]_vars

\* The writes to the transactions sheet, over a sheet that already holds
\* rows, with the read that caches them.
InitWrites ==
  /\ now = 1
  /\ memory = [k \in Keys |-> None]
  /\ listeners = [k \in Keys |-> <<>>]
  /\ \E rows \in SheetsOf("TRANSACTIONS") :
       sheet = [x \in Resources |-> IF x = "TRANSACTIONS" THEN rows ELSE <<>>]
  /\ tasks = [t \in Slots \cup BatchSlots \cup {Main} |-> IdleTask]
  /\ stale = [k \in Keys |-> FALSE]
  /\ ev = NoEv

NextWrites ==
  \/ GetStart(1, "TRANSACTIONS", FALSE)
  \/ GetFinish(1)
  \/ \E status \in {"ok", "notok"} : Respond(1, status)
  \/ \E n \in Names : deleteTransactions(1, n)
  \/ \E id \in TransactionIds : deleteTransactionById(1, id)
  \/ WriteFinish(1)

SpecWrites == InitWrites /\ [][NextWrites]_vars

\* Refreshes of the members entry with a subscriber that throws.
NextThrow ==
  \/ \E force \in BOOLEAN : GetStart(1, "MEMBERS", force)
  \/ GetFinish(1)
  \/ \E status \in {"ok", "notok"} : Respond(1, status)
  \/ \E d \in MemberInputs : addMember(1, d)
  \/ WriteFinish(1)
  \/ \E cb \in Throwers \cup {"setMembers"} : OnUpdate("MEMBERS", cb)
  \/ Tick

SpecThrow == Init /\ [][NextThrow]_vars

\* Everything that changes the members entry, with a subscriber of it:
\* reads, a write, invalidate, invalidatePattern and clear.
NextQuiet ==
  \/ \E force \in BOOLEAN : GetStart(1, "MEMBERS", force)
  \/ GetFinish(1)
  \/ \E status \in {"ok", "notok"} : Respond(1, status)
  \/ \E d \in MemberInputs : addMember(1, d)
  \/ WriteFinish(1)
  \/ Invalidate("MEMBERS")
  \/ \E s \in Patterns : InvalidatePattern(s)
  \/ Clear
  \/ OnUpdate("MEMBERS", "setMembers")

SpecQuiet == Init /\ [][NextQuiet]_vars

\* Two confirmations of the loan form in flight.
NextConfirm ==
  \/ \E t \in Slots, members \in ConfirmMembers, name \in Names :
       handleConfirm(t, members, name)
  \/ \E t \in Slots : handleConfirmLoans(t)
  \/ \E t \in Slots : handleConfirmAdded(t)
  \/ \E t \in Slots, status \in {"ok", "notok"} : Respond(t, status)

SpecConfirm == Init /\ [][NextConfirm]_vars

\* Two fetches of the loans entry in flight, with a write that changes what
\* they bring back, invalidation, clear and a subscriber.
NextConcurrent ==
  \/ \E t \in Slots : GetStart(t, "LOANS", FALSE)
  \/ \E t \in Slots : GetFinish(t)
  \/ \E t \in Slots : Respond(t, "ok")
  \/ \E t \in Slots, d \in LoanInputs : addLoan(t, d)
  \/ \E t \in Slots : WriteFinish(t)
  \/ Invalidate("LOANS")
  \/ Clear
  \/ OnUpdate("LOANS", "setData")

SpecConcurrent == Init /\ [][NextConcurrent]_vars

\* updateMember with subscribers of the members entry and of the loans entry.
NextUpdate ==
  \/ GetStart(1, "MEMBERS", FALSE)
  \/ GetFinish(1)
  \/ \E status \in {"ok", "notok"} : Respond(1, status)
  \/ \E d \in MemberInputs : addMember(1, d)
  \/ WriteFinish(1)
  \/ \E n \in Names, u \in MemberUpdates : UpdStart(1, n, u)
  \/ UpdLookup(1)
  \/ UpdFinish(1)
  \/ OnUpdate("MEMBERS", "setMembers")
  \/ OnUpdate("LOANS", "setLoans")

SpecUpdate == Init /\ [][NextUpdate]_vars

\* The three resources side by side: each with its read, its subscriber and
\* the handle of that subscriber, the loans with a write and a local filter.
SubscriberOf ==
  [MEMBERS |-> "setMembers", TRANSACTIONS |-> "setTransactions", LOANS |-> "setLoans"]

NextSubscribe ==
  \/ \E r \in Resources : GetStart(1, r, TRUE)
  \/ GetFinish(1)
  \/ Respond(1, "ok")
  \/ \E d \in LoanInputs : addLoan(1, d)
  \/ WriteFinish(1)
  \/ getLoansByMember("Alice")
  \/ \E r \in Resources : OnUpdate(r, SubscriberOf[r])
  \/ \E r \in Resources : Unsubscribe(r, SubscriberOf[r])

SpecSubscribe == Init /\ [][NextSubscribe]_vars

\* Handles called from inside a notification round: stopReload calls the
\* handle of reload when it is invoked.
RoundCallbacks == {"stopReload", "reload"}

NextUnsubscribe ==
  \/ GetStart(1, "MEMBERS", TRUE)
  \/ GetFinish(1)
  \/ \E status \in {"ok", "notok"} : Respond(1, status)
  \/ \E d \in MemberInputs : addMember(1, d)
  \/ WriteFinish(1)
  \/ \E cb \in RoundCallbacks : OnUpdate("MEMBERS", cb)
  \/ \E cb \in RoundCallbacks : Unsubscribe("MEMBERS", cb)
  \/ OnUpdate("LOANS", "setLoans")

SpecUnsubscribe == Init /\ [][NextUnsubscribe]_vars

\* Key derivation over filters objects.
NextKey == \E r \in Resources, f \in FilterInputs : GetCacheKey(r, f)

SpecKey == Init /\ [][NextKey]_vars

\* Application startup: the preload batch and its three remote reads.
NextStartup ==
  \/ Startup
  \/ \E t \in BatchSlots, status \in {"ok", "notok", "reject"} : Respond(t, status)
  \/ \E t \in BatchSlots : BatchFinish(t)

SpecStartup == Init /\ [][NextStartup]_vars

\* The event loop runs every continuation that is ready, and every remote
\* call settles.
SpecStartupLive == SpecStartup /\ WF_vars(NextStartup)

\* Entry lifetimes: the three reads and a fetch with no options, over time.
NextTtl ==
  \/ \E r \in Resources : GetStart(1, r, FALSE)
  \/ Fetch(1, "LOANS")
  \/ GetFinish(1)
  \/ \E status \in {"ok", "notok"} : Respond(1, status)
  \/ Tick

SpecTtl == Init /\ [][NextTtl]_vars

\* The local filters over entries that are absent, fresh or expired.
NextLocal ==
  \/ \E r \in {"MEMBERS", "LOANS"} : GetStart(1, r, FALSE)
  \/ GetFinish(1)
  \/ Respond(1, "ok")
  \/ \E d \in MemberInputs : addMember(1, d)
  \/ \E d \in LoanInputs : addLoan(1, d)
  \/ WriteFinish(1)
  \/ Tick
  \/ \E q \in Queries : searchMembers(q)
  \/ \E n \in Names \cup {""} : searchTransactions(n)
  \/ \E n \in Names : getLoanByMember(n)
  \/ \E n \in Names : getLoansByMember(n)

SpecLocal == Init /\ [][NextLocal]_vars

\* The local filters over what the reads cached of sheets that hold rows
\* before the application starts (one sheet at a time holds rows: a filter
\* reads one entry).
InitFilters ==
  /\ now = 1
  /\ memory = [k \in Keys |-> None]
  /\ listeners = [k \in Keys |-> <<>>]
  /\ \E r \in Resources : \E rows \in SheetsOf(r) :
       sheet = [x \in Resources |-> IF x = r THEN rows ELSE <<>>]
  /\ tasks = [t \in Slots \cup BatchSlots \cup {Main} |-> IdleTask]
  /\ stale = [k \in Keys |-> FALSE]
  /\ ev = NoEv

NextFilters ==
  \/ \E r \in Resources : GetStart(1, r, FALSE)
  \/ GetFinish(1)
  \/ Respond(1, "ok")
  \/ \E q \in Queries : searchMembers(q)
  \/ \E n \in Names \cup {""} : searchTransactions(n)
  \/ \E n \in Names : getLoanByMember(n)
  \/ \E n \in Names : getLoansByMember(n)

SpecFilters == InitFilters /\ [][NextFilters]_vars

TypeOK == now \in 1..MaxTime


\* ------------------------------------------------------------------ claims
SettledCall == ev.type \in {"return", "throw"}
SettledGet == SettledCall /\ ev.op \in GetOps
Failed == ev.status \in {"notok", "reject"}
MembersKey == KeyOf("MEMBERS")
TransactionsKey == KeyOf("TRANSACTIONS")
LoansKey == KeyOf("LOANS")

\* C1: a fetch whose remote call fails returns the payload of the entry that
\* existed for its key when the call started, fresh or expired, forced or
\* not, and does not throw (no other caller having removed the entry in
\* the meantime).
C1_StaleFallback ==
  (SettledGet /\ Failed /\ IsSome(ev.ent0)
   /\ (IsSome(ev.entF) \/ <<"evict", ev.key>> \in ev.eff))
    => (ev.type = "return" /\ ev.value = Some(The(ev.ent0).data))

\* C2: a fetch without forceRefresh that starts while an entry exists whose
\* expiresAt the clock has not passed returns that entry's payload at once
\* and issues no remote call.
C2_CacheHit ==
  /\ (SettledGet /\ ~ev.force /\ IsSome(ev.ent0) /\ ev.now0 <= The(ev.ent0).expiresAt)
       => (ev.type = "return" /\ ev.value = Some(The(ev.ent0).data) /\ ev.calls = 0
           /\ ev.status = "")
  /\ \A t \in Slots :
       (tasks[t].op \in GetOps /\ ~tasks[t].force /\ IsSome(tasks[t].ent0))
         => tasks[t].now0 > The(tasks[t].ent0).expiresAt

C2_Witness ==
  /\ SettledGet /\ ~ev.force /\ IsSome(ev.ent0)
  /\ ev.now0 = The(ev.ent0).expiresAt
  /\ ev.calls = 0
  /\ ev.value = Some(<<[Name |-> "Alice"]>>)

ExpiredMiss ==
  /\ SettledGet /\ ~ev.force /\ IsSome(ev.ent0)
  /\ ev.now0 > The(ev.ent0).expiresAt

\* C3 as stated: after a miss on an expired entry that refreshes
\* successfully, the stored expiresAt is the time the call was made + ttl.
C3_ExpiryFromCallTime ==
  (ExpiredMiss /\ ev.status = "ok")
    => (ev.calls = 1 /\ IsSome(memory[ev.key])
        /\ The(memory[ev.key]).expiresAt = ev.now0 + ev.ttl)

\* C3 (amended): a fetch without forceRefresh that starts after the entry's
\* expiresAt has passed issues one remote call, and on success the stored
\* expiresAt is the time of the write-back + ttl, later than the old one.
C3_ExpiryFromWriteBack ==
  /\ ExpiredMiss => ev.calls = 1
  /\ (ExpiredMiss /\ ev.status = "ok")
       => /\ IsSome(memory[ev.key])
          /\ The(memory[ev.key]).expiresAt = now + ev.ttl
          /\ The(memory[ev.key]).expiresAt > The(ev.ent0).expiresAt
          /\ The(memory[ev.key]).data = The(ev.value)
  /\ \A t \in Slots :
       (tasks[t].op \in GetOps /\ tasks[t].pc # "idle") => tasks[t].calls = 1

C3_Witness ==
  /\ ExpiredMiss /\ ev.status = "ok"
  /\ now > ev.now0
  /\ The(memory[ev.key]).expiresAt = now + ev.ttl

\* C4: a fetch whose remote call fails while no entry exists for its key
\* rejects with the error of that failure; it does not resolve.
C4_NoEntryRejects ==
  (SettledGet /\ Failed /\ ~IsSome(ev.entF))
    => /\ ev.type = "throw"
       /\ ev.value = None
       /\ ev.err = IF ev.status = "notok"
                   THEN <<"API Error: ", "Too Many Requests">>
                   ELSE <<"TypeError: Failed to fetch">>

C4_Witness ==
  /\ SettledGet /\ ev.type = "throw" /\ ev.status = "notok"
  /\ ~IsSome(ev.ent0) /\ ~ev.force

\* C5: invalidate leaves no entry for the key, and a fetch of that key
\* called right after it issues a remote call, whatever the entry was.
C5_InvalidateThenFetch ==
  /\ ev.type = "invalidate" => ~IsSome(memory[ev.key])
  /\ \A t \in Slots : tasks[t].postInv => (tasks[t].pc # "idle" /\ tasks[t].calls = 1)
  /\ (SettledCall /\ ev.postInv) => (ev.calls = 1 /\ ev.status # "")

C5_Witness ==
  /\ SettledGet /\ ev.postInv /\ ~ev.force
  /\ IsSome(ev.invEnt) /\ ev.now0 <= The(ev.invEnt).expiresAt
  /\ ev.calls = 1 /\ ev.status = "ok"

\* A successful write whose mutation the service has applied and that has
\* not returned yet.
WritePending(r) ==
  \E t \in Slots : /\ tasks[t].op \in WriteOps /\ tasks[t].pc = "resp"
                   /\ tasks[t].req.method # "GET" /\ tasks[t].req.res = r
                   /\ tasks[t].resp.status = "ok"

\* C6: once every successful write of loans has returned, a getLoans()
\* without forceRefresh never returns, as a hit, a payload that was read
\* before one of those writes.
C6_FreshAfterWrite ==
  (SettledGet /\ ev.op = "getLoans" /\ ~ev.force /\ ev.calls = 0 /\ ~WritePending("LOANS"))
    => ~stale[ev.key]

NoInvalidation(eff) == \A e \in eff : e[1] \notin {"inv", "inv0"}

\* C7 as stated: a write (updateMember included) whose remote call answers a
\* non-success status rejects and leaves the store as it was when called.
C7_FailedWriteStoreUntouched ==
  (SettledCall /\ ev.op \in WriteOps /\ ev.status = "notok")
    => (ev.type = "throw" /\ memory = ev.mem0)

\* C7 (amended): such a write rejects and invalidates nothing; after the
\* five direct writes the store is what it was when the write was called,
\* after updateMember it differs at most by the members entry that its own
\* forced refresh wrote back.
C7_FailedWriteInvalidatesNothing ==
  (SettledCall /\ ev.op \in WriteOps /\ ev.status = "notok")
    => /\ ev.type = "throw"
       /\ NoInvalidation(ev.eff)
       /\ ev.op \in DirectWriteOps => (memory = ev.mem0 /\ ev.err = FailMessage(ev.op))
       /\ ev.op = "updateMember" =>
            /\ \A k \in Keys \ {MembersKey} : memory[k] = ev.mem0[k]
            /\ \/ memory[MembersKey] = ev.mem0[MembersKey]
               \/ /\ IsSome(ev.list)
                  /\ memory[MembersKey] =
                       Some([data |-> The(ev.list), expiresAt |-> The(memory[MembersKey]).expiresAt])

C7_Witness ==
  /\ SettledCall /\ ev.op = "deleteMember" /\ ev.status = "notok"
  /\ IsSome(memory[MembersKey]) /\ IsSome(memory[TransactionsKey])

OwnKey(op) ==
  CASE op \in {"addMember"} -> MembersKey
    [] op \in {"addTransaction"} -> TransactionsKey
    [] op \in {"updateLoan", "addLoan"} -> LoansKey

\* C8: every step of addMember, addTransaction, addLoan and updateLoan
\* leaves the store and the subscriber lists unchanged, except the step
\* that follows a success answer of the remote mutation, which removes the
\* entry of the write's own resource and nothing else.
C8_OwnKeyOnly ==
  [][\A t \in Slots :
       ((tasks[t].op \in OwnKeyWriteOps \/ tasks'[t].op \in OwnKeyWriteOps)
        /\ tasks'[t] # tasks[t])
         => /\ listeners' = listeners
            /\ memory' = IF tasks[t].pc = "resp" /\ tasks[t].resp.status = "ok"
                         THEN [memory EXCEPT ![OwnKey(tasks[t].op)] = None]
                         ELSE memory]_vars

C8_Witness ==
  /\ ev.type = "return" /\ ev.op = "addLoan"
  /\ <<"inv", LoansKey>> \in ev.eff
  /\ IsSome(memory[MembersKey]) /\ IsSome(memory[TransactionsKey])
  /\ listeners[LoansKey] # <<>> /\ listeners[MembersKey] # <<>>

\* C9: the step of deleteMember that follows a success answer removes the
\* members entry and the transactions entry and leaves the loans entry.
C9_DeleteMemberInvalidates ==
  [][\A t \in Slots :
       (tasks[t].op = "deleteMember" /\ tasks[t].pc = "resp" /\ tasks[t].resp.status = "ok"
        /\ tasks'[t] # tasks[t])
         => memory' = [memory EXCEPT ![MembersKey] = None, ![TransactionsKey] = None]]_vars

C9_Witness ==
  /\ ev.type = "return" /\ ev.op = "deleteMember"
  /\ ev.eff = {<<"inv", MembersKey>>, <<"inv", TransactionsKey>>}
  /\ IsSome(memory[LoansKey])

\* No record of the list has the name, or the first that has it has no Id.
NoUsableRecord(rows, name) ==
  \/ \A i \in 1..Len(rows) : rows[i].Name # name
  \/ \E i \in 1..Len(rows) :
       /\ rows[i].Name = name
       /\ \A j \in 1..(i - 1) : rows[j].Name # name
       /\ ("Id" \notin DOMAIN rows[i] \/ rows[i].Id = 0)

\* C10: updateMember whose member list has no usable record for the name
\* rejects with the not-found error having issued the read only, no PUT,
\* and leaves the members entry in the store.
C10_NotFound ==
  /\ (SettledCall /\ ev.op = "updateMember" /\ IsSome(ev.list)
      /\ NoUsableRecord(The(ev.list), ev.name))
       => /\ ev.type = "throw"
          /\ ev.err = <<"Member \"", ev.name, "\" not found or missing Id">>
          /\ ev.calls = 1
          /\ NoInvalidation(ev.eff)
          /\ IsSome(memory[MembersKey])
          /\ The(memory[MembersKey]).data = The(ev.list)
  /\ \A t \in Slots :
       (tasks[t].op = "updateMember" /\ IsSome(tasks[t].list))
         => ~NoUsableRecord(The(tasks[t].list), tasks[t].name)

C10_Witness ==
  /\ SettledCall /\ ev.op = "updateMember" /\ ev.type = "throw"
  /\ ev.status = "ok" /\ ev.name = "Bob"
  /\ ev.list = Some(<<[Name |-> "Bob"]>>)

\* The invocations of callback cb among the invocations invs, in order.
InvocationsOf(cb, invs) == SelectSeq(invs, LAMBDA x : x.cb = cb)
AllCallbacks == Callbacks \cup MemberCallbacks \cup {"setLoans"}
Refreshed == SettledGet /\ ev.calls = 1 /\ ev.status = "ok"

\* C11: when a successful forced refresh of a key directly follows another
\* one (only unsubscribe calls and successful writes in between), a callback
\* that was registered once at the first refresh has been invoked exactly
\* twice, first with the first refresh's payload and then with the second's;
\* if its unsubscribe handle was called in between, exactly once, with the
\* first payload.
C11_TwoRefreshes ==
  (Refreshed /\ ev.force /\ IsSome(ev.prev)) =>
    LET p == The(ev.prev)
    IN \A cb \in AllCallbacks :
         Len(InvocationsOf(cb, p.notified)) = 1 =>
           InvocationsOf(cb, p.notified \o ev.notified) =
             IF \E i \in 1..Len(p.unsub) : p.unsub[i] = cb
             THEN <<[cb |-> cb, data |-> p.value]>>
             ELSE <<[cb |-> cb, data |-> p.value], [cb |-> cb, data |-> The(ev.value)]>>

C11_Witness ==
  /\ Refreshed /\ ev.force /\ IsSome(ev.prev)
  /\ The(ev.prev).unsub = <<"reload">>
  /\ The(ev.prev).value = <<>> /\ The(ev.value) = <<[Name |-> "Bob"]>>
  /\ InvocationsOf("reload", The(ev.prev).notified \o ev.notified)
       = <<[cb |-> "reload", data |-> <<>>]>>
  /\ InvocationsOf("setMembers", The(ev.prev).notified \o ev.notified)
       = <<[cb |-> "setMembers", data |-> <<>>],
           [cb |-> "setMembers", data |-> <<[Name |-> "Bob"]>>]>>

\* C12: a fetch that made a remote call which succeeded invokes the
\* callbacks registered for its key, each registration once, in order, with
\* the payload it stored; every other settled call or cache operation (a
\* hit, a failed remote call, a stale-fallback return, a write, an
\* invalidation) invokes no callback, and callbacks registered for other
\* keys only are not invoked.
C12_NotifyOnStoreOnly ==
  IF Refreshed
  THEN ev.notified = [i \in 1..Len(listeners[ev.key]) |->
                        [cb |-> listeners[ev.key][i], data |-> The(memory[ev.key]).data]]
  ELSE ev.op # "updateMember" => ev.notified = <<>>

C12_Witness ==
  /\ Refreshed /\ ~ev.force /\ ev.postInv
  /\ listeners[LoansKey] = <<"setLoans">>
  /\ ev.notified = <<[cb |-> "setMembers", data |-> <<[Name |-> "Alice", Id |-> 1]>>]>>

\* C13: calling the handle of one registration removes that registration
\* only: the list of the key is one shorter, and a callback registered twice
\* is still registered once.
C13_OneRegistrationRemoved ==
  ev.type = "unsubscribe" =>
    /\ Len(listeners[ev.key]) = Len(ev.lst0) - 1
    /\ \A cb \in AllCallbacks :
         Len(InvocationsOf(cb, [i \in 1..Len(listeners[ev.key]) |-> [cb |-> listeners[ev.key][i]]]))
           = Len(InvocationsOf(cb, [i \in 1..Len(ev.lst0) |-> [cb |-> ev.lst0[i]]]))
             - (IF cb = ev.cb THEN 1 ELSE 0)

\* The filters objects that hold the entries of f in some insertion order.
Reorderings(f) ==
  {g \in [1..Len(f) -> {f[i] : i \in 1..Len(f)}] :
     \A i \in 1..Len(f) : \E j \in 1..Len(f) : g[j] = f[i]}

\* C14: the key derived from a filters object is the key derived from every
\* filters object that holds the same entries in another insertion order.
C14_OrderIndependent ==
  ev.type = "key" =>
    \A g \in Reorderings(ev.filters) : getCacheKey(ENDPOINTS[ev.res], g) = ev.key

BatchSettled(t) == tasks[t].batch /\ tasks[t].pc \in {"fulfilled", "rejected"}
PreloadSettled == ev.op = "preloadData" /\ ev.type \in {"return", "throw"}
Rendered == tasks[Main].pc = "rendered"

\* C15: when preloadData completes, each of its three reads has settled.
C15_AllSettledBeforeComplete ==
  PreloadSettled => \A t \in BatchSlots : BatchSettled(t)

\* C16: preloadData never rejects, and the entry of each read of the batch
\* that has settled is what that read produced, whatever the other reads
\* did: the response with expiry write-back time + ttl if its remote call
\* succeeded, and what was there at the call (nothing, on an empty cache)
\* if it failed.
C16_PreloadSwallows ==
  /\ PreloadSettled => ev.type = "return"
  /\ \A t \in BatchSlots :
       BatchSettled(t) =>
         memory[tasks[t].key] =
           IF tasks[t].resp.status = "ok"
           THEN Some([data |-> tasks[t].resp.body, expiresAt |-> now + tasks[t].ttl])
           ELSE tasks[t].ent0

C16_Witness ==
  /\ PreloadSettled /\ ev.status = "rejected"
  /\ tasks[1].pc = "fulfilled" /\ tasks[2].pc = "rejected" /\ BatchSettled(3)
  /\ IsSome(memory[MembersKey]) /\ ~IsSome(memory[TransactionsKey])

\* C17: the root is rendered only once the promise of preloadData has
\* settled; three reads that all succeeded on an empty cache made three
\* remote calls by then; and the root is eventually rendered.
C17_RenderAfterPreload ==
  /\ [](Rendered =>
         /\ preloadData(PromiseAll(BatchStates(tasks))) # "pending"
         /\ (\A t \in BatchSlots : tasks[t].pc = "fulfilled" /\ tasks[t].ent0 = None)
              => BatchCalls(tasks) = 3)
  /\ <>Rendered

C17_Witness ==
  /\ Rendered /\ PreloadSettled /\ ev.status = "fulfilled" /\ ev.calls = 3
  /\ \A t \in BatchSlots : tasks[t].resp.status = "ok" /\ IsSome(memory[tasks[t].key])

\* C18: a forced fetch settles only after a remote call, whatever entry was
\* there; when that call succeeds the entry of the key is the new payload
\* with expiry write-back time + ttl; and a non-forced fetch of the key that
\* starts right after is a hit that returns that payload.
C18_ForcedRefresh ==
  [][/\ (SettledGet /\ ev.force)' => (ev.calls = 1)'
     /\ (Refreshed /\ ev.force)' =>
          memory'[ev'.key] = Some([data |-> The(ev'.value), expiresAt |-> now' + ev'.ttl])
     /\ (Refreshed /\ ev.force) =>
          /\ \A t \in Slots :
               ~(/\ tasks[t].pc = "idle" /\ tasks'[t].pc = "await"
                 /\ tasks'[t].op \in GetOps /\ ~tasks'[t].force /\ tasks'[t].key = ev.key)
          /\ (SettledGet' /\ ~ev'.force /\ ev'.key = ev.key /\ tasks' = tasks)
               => (ev'.type = "return" /\ ev'.calls = 0 /\ ev'.value = ev.value)]_vars

C18_Witness ==
  /\ Refreshed /\ ev.force /\ IsSome(ev.ent0)
  /\ ev.now0 <= The(ev.ent0).expiresAt /\ now <= The(ev.ent0).expiresAt
  /\ ev.op = "getMembers" /\ now > ev.now0
  /\ The(memory[ev.key]).expiresAt = The(ev.ent0).expiresAt + 2

Minutes(n) == n * 60 * 1000

\* C19: an entry stored by getMembers expires 30 minutes after its
\* write-back, one stored by getTransactions or getLoans 15 minutes after,
\* one stored by a fetch with no ttl option 60 minutes after; and a
\* non-forced fetch that finds an entry is a hit exactly when the clock is
\* at or before the entry's expiry.
C19_Lifetimes ==
  /\ Refreshed =>
       The(memory[ev.key]).expiresAt * TimeUnit =
         now * TimeUnit + (CASE ev.op = "getMembers" -> Minutes(30)
                             [] ev.op = "getTransactions" -> Minutes(15)
                             [] ev.op = "getLoans" -> Minutes(15)
                             [] ev.op = "fetch" -> Minutes(60))
  /\ (SettledGet /\ ~ev.force /\ IsSome(ev.ent0)) =>
       (ev.calls = 0 <=> ev.now0 <= The(ev.ent0).expiresAt)

C19_Witness ==
  /\ Refreshed /\ ev.op = "getMembers" /\ IsSome(ev.ent0)
  /\ ev.now0 = The(ev.ent0).expiresAt + 1
  /\ IsSome(memory[LoansKey]) /\ The(memory[LoansKey]).expiresAt = 1 + DEFAULT_TTL
  /\ ~IsSome(memory[TransactionsKey])

\* The key a local filter reads.
LocalKey(op) ==
  CASE op = "searchMembers" -> MembersKey
    [] op = "searchTransactions" -> TransactionsKey
    [] OTHER -> LoansKey

SameLetter(a, b) ==
  \/ a = b
  \/ {a, b} \in {{"A", "a"}, {"B", "b"}, {"L", "l"}}

\* q occurs in str at some offset, letter case ignored.
ContainsIgnoringCase(str, q) ==
  \E off \in 0..(Len(str) - Len(q)) :
    \A j \in 1..Len(q) : SameLetter(str[off + j], q[j])

\* The elements of data that satisfy P, in the order of data.
Selected(data, P(_)) ==
  LET idx == {i \in 1..Len(data) : P(data[i])}
      Nth(k) == CHOOSE i \in idx : Cardinality({j \in idx : j < i}) = k - 1
  IN [k \in 1..Cardinality(idx) |-> data[Nth(k)]]

\* C21: with an entry cached for its resource, searchMembers(q) returns the
\* cached members whose Name contains q whatever the letter case, in cached
\* order, and all of them when q is empty; searchTransactions(n) returns the
\* cached transactions whose Name is n, and all of them when n is empty;
\* getLoansByMember(n) returns the cached loans whose Name is n in cached
\* order, and getLoanByMember(n) the first of these when there is one.
C21_FilterResults ==
  (ev.type = "return" /\ ev.op \in LocalOps /\ IsSome(memory[LocalKey(ev.op)])) =>
    LET data == The(memory[LocalKey(ev.op)]).data
        named == Selected(data, LAMBDA x : x.Name = ev.name)
    IN CASE ev.op = "searchMembers" ->
              ev.value = Some(IF ev.query = <<>> THEN data
                              ELSE Selected(data, LAMBDA m :
                                     ContainsIgnoringCase(Chars(m.Name), ev.query)))
         [] ev.op = "searchTransactions" ->
              ev.value = Some(IF ev.name = "" THEN data ELSE named)
         [] ev.op = "getLoansByMember" -> ev.value = Some(named)
         [] ev.op = "getLoanByMember" -> (named # <<>> => ev.value = Some(named[1]))

C21_Witness ==
  /\ ev.type = "return" /\ ev.op = "searchMembers" /\ ev.query = <<"L", "i">>
  /\ IsSome(memory[MembersKey])
  /\ The(memory[MembersKey]).data = <<[Name |-> "Bob"], [Name |-> "Alice", Id |-> 1]>>
  /\ ev.value = Some(<<[Name |-> "Alice", Id |-> 1]>>)

\* C22: clear() leaves no entry in the store and leaves every subscriber
\* list as it was; the successful refresh that follows a clear() invokes the
\* callbacks that were registered for its key when clear() was called.
C22_ClearKeepsSubscribers ==
  [][/\ ev'.type = "clear" =>
          /\ \A k \in Keys : memory'[k] = None
          /\ listeners' = listeners
     /\ (ev'.type = "return" /\ ev'.op \in GetOps /\ ev'.status = "ok" /\ IsSome(ev'.lstC)) =>
          LET before == The(ev'.lstC).listeners[ev'.key]
          IN /\ Len(ev'.notified) >= Len(before)
             /\ \A i \in 1..Len(before) :
                  ev'.notified[i] = [cb |-> before[i], data |-> The(ev'.value)]]_vars

C22_Witness ==
  /\ ev.type = "return" /\ ev.op \in GetOps /\ ev.status = "ok" /\ IsSome(ev.lstC)
  /\ IsSome(The(ev.lstC).memory[ev.key])
  /\ ev.ent0 = None
  /\ The(ev.lstC).listeners[ev.key] # <<>>
  /\ ev.notified # <<>>

\* C23: invalidate(resourceId, filters) leaves the store without an entry
\* under getCacheKey(resourceId, filters), leaves every other entry and every
\* subscriber list as they were, and returns normally whether or not the
\* entry existed.
C23_InvalidateExactlyOne ==
  [][ev'.type = "invalidate" =>
       LET key == getCacheKey(ENDPOINTS[ev'.res], ev'.filters)
       IN /\ ev'.res \in Resources
          /\ memory'[key] = None
          /\ \A k \in Keys \ {key} : memory'[k] = memory[k]
          /\ listeners' = listeners
          /\ ev'.err = <<>>]_vars

C23_Witness ==
  /\ ev.type = "invalidate" /\ ev.filters = StatusActive /\ ev.res = "LOANS"
  /\ IsSome(ev.ent0)
  /\ memory[ev.key] = None
  /\ IsSome(memory[LoansKey]) /\ IsSome(memory[MembersKey])
  /\ listeners[MembersKey] # <<>>

\* pattern occurs in key: some suffix of a prefix of key is pattern.
Occurs(pattern, key) ==
  \E i \in 0..Len(key) : \E j \in i..Len(key) :
    /\ j - i = Len(pattern)
    /\ \A n \in 1..Len(pattern) : key[i + n] = pattern[n]

\* C24: after invalidatePattern(s) the store holds no entry under a key that
\* contains s and holds, under every key that does not contain s, what it
\* held before.
C24_PatternRemovesMatching ==
  [][ev'.type = "invalidatePattern" =>
       \A k \in Keys :
         memory'[k] = IF Occurs(ev'.pattern, k) THEN None ELSE memory[k]]_vars

C24_Witness ==
  /\ ev.type = "invalidatePattern" /\ ev.pattern = <<"_", "Status">>
  /\ memory[getCacheKey(ENDPOINTS["LOANS"], StatusActive)] = None
  /\ memory[getCacheKey(ENDPOINTS["MEMBERS"], StatusActive)] = None
  /\ IsSome(memory[LoansKey]) /\ IsSome(memory[MembersKey])

\* The resource whose sheet a write changes.
Changed(op) ==
  CASE op \in {"addMember", "updateMember", "deleteMember"} -> "MEMBERS"
    [] op \in {"addTransaction", "deleteTransactions", "deleteTransactionById"} ->
         "TRANSACTIONS"
    [] op \in {"addLoan", "updateLoan"} -> "LOANS"

\* C25: when a create, update or delete operation of dataManager returns,
\* the store holds no entry for the resource whose sheet it changed.
C25_WritesInvalidate ==
  (ev.type = "return" /\ ev.op \in WriteOps) => memory[KeyOf(Changed(ev.op))] = None

\* C26: when a refresh of a key has succeeded, every callback registered
\* for the key has been invoked for it, whether or not a callback registered
\* before it threw, and the entry of the key holds the new payload and the
\* new expiresAt.
C26_ThrowerIsolated ==
  Refreshed =>
    /\ \A i \in 1..Len(listeners[ev.key]) :
         \E j \in 1..Len(ev.notified) : ev.notified[j].cb = listeners[ev.key][i]
    /\ memory[ev.key] = Some([data |-> The(ev.value), expiresAt |-> now + ev.ttl])

\* C29: when a refresh of a key has succeeded, the invocations it made are
\* those of the callbacks registered for the key, one each, in registration
\* order, each with the payload the fetch returns; they were made with the
\* new entry already stored, so that a callback reading the cache for the key
\* saw the new payload, and before the fetch returned.
C29_OrderedAfterStore ==
  Refreshed =>
    /\ ev.notified = [i \in 1..Len(listeners[ev.key]) |->
                        [cb |-> listeners[ev.key][i], data |-> The(ev.value)]]
    /\ ev.seen = ev.value
    /\ IsSome(memory[ev.key]) /\ The(memory[ev.key]).data = The(ev.value)

C29_Witness ==
  /\ Refreshed
  /\ listeners[ev.key] = <<"setMembers", "reload">>
  /\ ev.notified = <<[cb |-> "setMembers", data |-> <<[Name |-> "Bob"]>>],
                     [cb |-> "reload", data |-> <<[Name |-> "Bob"]>>]>>
  /\ ev.seen = Some(<<[Name |-> "Bob"]>>)

Expired(mem, key, t) == IsSome(mem[key]) /\ t > The(mem[key]).expiresAt

WritesBack(t) ==
  /\ tasks[t].pc = "resp" /\ tasks'[t].pc = "idle"
  /\ tasks[t].op \in GetOps /\ tasks[t].resp.status = "ok"

\* The remote reads in flight in the given tasks.
RemoteReads(tsk) == {t \in Slots : tsk[t].pc \in {"await", "resp"} /\ tsk[t].op \in GetOps}

\* C27: the store holds at most one entry per key; an entry changes only by
\* being removed or by being replaced, in one step, by the write-back of a
\* fetch of its key whose remote read succeeded, and its payload is then the
\* whole response of that fetch and nothing of what was stored before; every
\* such write-back leaves that response as the payload of the key.
C27_WholeReplacement ==
  [][/\ \A k \in Keys :
          /\ Len(memory'[k]) <= 1
          /\ memory'[k] # memory[k] =>
               \/ memory'[k] = None
               \/ \E t \in Slots :
                    /\ WritesBack(t) /\ tasks[t].key = k
                    /\ memory'[k] = Some([data |-> tasks[t].resp.body,
                                          expiresAt |-> now + tasks[t].ttl])
     /\ \A t \in Slots :
          WritesBack(t) => /\ IsSome(memory'[tasks[t].key])
                           /\ The(memory'[tasks[t].key]).data = tasks[t].resp.body]_vars

C27_Witness ==
  /\ Refreshed /\ ev.key = LoansKey
  /\ ev.entF = Some([data |-> <<>>, expiresAt |-> 2])
  /\ memory[LoansKey] =
       Some([data |-> <<[Name |-> "Alice", Id |-> 1, Status |-> "Active"]>>, expiresAt |-> 2])

UpdateNotFound ==
  ev.type = "throw" /\ ev.op = "updateMember" /\ ev.err = NotFoundError(ev.name)

\* C31 as stated: an updateMember call that ends with the not-found error
\* issued no remote call, left the members entry as it was at the call and
\* invoked no subscriber.
C31_NotFoundBeforeAnyCall ==
  UpdateNotFound =>
    /\ ev.calls = 0
    /\ memory[MembersKey] = ev.ent0
    /\ ev.notified = <<>>

\* C31, amended: an updateMember call that ends with the not-found error
\* issued exactly one remote call, the forced read of the member list, and no
\* remote write; when the read succeeded it stored the list it read as the
\* members entry and invoked the subscribers of the members entry with it,
\* and only them; when the read failed it looked the member up in the entry
\* that was there, which it left as it was, and invoked no subscriber.
C31_NotFoundAfterRead ==
  UpdateNotFound =>
    /\ ev.calls = 1
    /\ IsSome(ev.list)
    /\ IF ev.status = "ok"
       THEN /\ memory[MembersKey] =
                 Some([data |-> The(ev.list), expiresAt |-> now + CACHE_TTL["MEMBERS"]])
            /\ ev.eff = {<<"set", MembersKey>>}
            /\ ev.notified = [i \in 1..Len(listeners[MembersKey]) |->
                                [cb |-> listeners[MembersKey][i], data |-> The(ev.list)]]
       ELSE /\ IsSome(ev.ent0) /\ memory[MembersKey] = ev.ent0
            /\ The(ev.ent0).data = The(ev.list)
            /\ ev.eff = {}
            /\ ev.notified = <<>>

C31_Witness ==
  /\ UpdateNotFound /\ ev.name = "Alice"
  /\ ev.ent0 = None
  /\ memory[MembersKey] = Some([data |-> <<[Name |-> "Bob"]>>, expiresAt |-> 3])
  /\ ev.notified = <<[cb |-> "setMembers", data |-> <<[Name |-> "Bob"]>>]>>
  /\ listeners[LoansKey] # <<>>

\* Callback cb is in the list registered under key.
Registered(cb, key) == \E i \in 1..Len(listeners[key]) : listeners[key][i] = cb

\* C32: the keys of the three resources are pairwise distinct; a read of a
\* resource stores under the key of that resource, a write invalidates it, a
\* local filter reads it, and a successful refresh invokes the callback given
\* to onMembersUpdate, onTransactionsUpdate or onLoansUpdate exactly when the
\* refresh is that of the callback's own resource and the callback is
\* registered, which it no longer is once its handle has been called.
C32_OneKeyPerResource ==
  /\ \A r1, r2 \in Resources : r1 # r2 => KeyOf(r1) # KeyOf(r2)
  /\ Refreshed =>
       \A r \in Resources :
         /\ ev.op = GetOpOf[r] =>
              /\ ev.key = KeyOf(r)
              /\ IsSome(memory[KeyOf(r)]) /\ The(memory[KeyOf(r)]).data = The(ev.value)
         /\ (\E i \in 1..Len(ev.notified) : ev.notified[i].cb = SubscriberOf[r])
              <=> (ev.op = GetOpOf[r] /\ Registered(SubscriberOf[r], KeyOf(r)))
  /\ (ev.type = "return" /\ ev.op = "addLoan") => memory[KeyOf("LOANS")] = None
  /\ (ev.type = "return" /\ ev.op = "getLoansByMember" /\ IsSome(memory[KeyOf("LOANS")])) =>
       ev.value = Some(Selected(The(memory[KeyOf("LOANS")]).data,
                                LAMBDA l : l.Name = ev.name))
  /\ ev.type = "unsubscribe" => ~Registered(ev.cb, ev.key)

C32_Witness ==
  /\ Refreshed /\ ev.op = "getLoans"
  /\ ev.notified = <<[cb |-> "setLoans",
                      data |-> <<[Name |-> "Alice", Id |-> 1, Status |-> "Active"]>>]>>
  /\ Registered("setMembers", MembersKey)
  /\ Registered("setTransactions", TransactionsKey)
  /\ IsSome(memory[MembersKey]) /\ IsSome(memory[TransactionsKey])

\* C33: a fetch issues one remote call: the step that follows the answer to
\* it, success or failure, settles the fetch, with the stale payload or the
\* error after a failure, and leaves no remote call of it behind; a call in
\* flight is the first and only one of its fetch.
C33_NoRetry ==
  [][\A t \in Slots :
       /\ (tasks'[t].op \in GetOps /\ tasks'[t].pc \in {"await", "resp"}) =>
            tasks'[t].calls = 1
       /\ (tasks[t].op \in GetOps /\ tasks[t].pc = "await" /\ tasks'[t] # tasks[t]) =>
            tasks'[t].pc = "resp"
       /\ (tasks[t].op \in GetOps /\ tasks[t].pc = "resp" /\ tasks'[t] # tasks[t]) =>
            /\ tasks'[t] = IdleTask
            /\ ev'.type \in {"return", "throw"} /\ ev'.op = tasks[t].op
            /\ ev'.calls = 1
            /\ tasks[t].resp.status # "ok" =>
                 /\ memory' = memory
                 /\ IF IsSome(memory[tasks[t].key])
                    THEN ev'.type = "return"
                         /\ ev'.value = Some(The(memory[tasks[t].key]).data)
                    ELSE ev'.type = "throw"]_vars

C33_Witness ==
  /\ SettledGet /\ Failed /\ ev.force
  /\ ev.calls = 1
  /\ ev.type = "return" /\ IsSome(memory[ev.key])
  /\ \A t \in Slots : tasks[t] = IdleTask

\* C34: in the notification round of a successful refresh, no callback is
\* invoked after the invocation of a callback that called its unsubscribe
\* handle.
C34_NeverAfterUnsubscribe ==
  Refreshed =>
    \A i, j \in 1..Len(ev.notified) :
      i < j => HandleCalledBy(ev.notified[i].cb) # Some(ev.notified[j].cb)

\* A fetch that has returned from its catch block: the remote call failed,
\* or a callback threw after the new entry was stored.
ThroughFallback ==
  SettledGet /\ ev.type = "return" /\ (Failed \/ Throws(ev.notified))

\* C35 as stated: every fetch that returns from the catch block has left
\* the entry as it was before the response and has invoked no subscriber.
C35_FallbackPathQuiet ==
  ThroughFallback => memory[ev.key] = ev.entF /\ ev.notified = <<>>

\* C35: a fetch that returns after a failed remote call returns the payload
\* of the entry that was there, leaves that entry as it was, payload and
\* expiresAt, and invokes no subscriber; an entry that was past its expiry
\* still is.
C35_FallbackLeavesEntry ==
  (SettledGet /\ Failed /\ ev.type = "return") =>
    /\ IsSome(ev.entF)
    /\ memory[ev.key] = ev.entF
    /\ ev.value = Some(The(ev.entF).data)
    /\ ev.notified = <<>>
    /\ ev.now0 > The(ev.entF).expiresAt => Expired(memory, ev.key, now)

C35_Witness ==
  /\ SettledGet /\ Failed /\ ev.type = "return" /\ ev.force
  /\ IsSome(ev.ent0) /\ ev.now0 > The(ev.ent0).expiresAt
  /\ memory[ev.key] = ev.ent0
  /\ listeners[ev.key] # <<>>

\* C37: when a callback throws in the notification round of a refresh whose
\* remote call succeeded, the fetch returns, it does not throw; what it
\* returns is the payload of the response, and the entry of the key holds that
\* payload with the expiry of this refresh.
C37_ThrowingCallbackCaught ==
  [][\A t \in Slots :
       (/\ tasks[t].pc = "resp" /\ tasks[t].op \in GetOps
        /\ tasks[t].resp.status = "ok"
        /\ tasks'[t].pc = "idle"
        /\ Throws(ev'.notified))
       => /\ ev'.type = "return"
          /\ ev'.value = Some(tasks[t].resp.body)
          /\ memory'[tasks[t].key] =
               Some([data |-> tasks[t].resp.body, expiresAt |-> now + tasks[t].ttl])]_vars

C37_Witness ==
  /\ Refreshed /\ Throws(ev.notified)
  /\ ev.type = "return"
  /\ ev.entF = None
  /\ memory[ev.key] = Some([data |-> The(ev.value), expiresAt |-> now + ev.ttl])
  /\ Len(listeners[ev.key]) > Len(ev.notified)

\* C36: a callback is invoked only in the step in which a read settles
\* whose remote call succeeded, for the key of that read and with the payload
\* of its response; invalidate, invalidatePattern and clear invoke none, and
\* the step in which a write settles invokes none and leaves the entry of
\* the written resource empty, so its subscribers are given nothing until
\* such a read.
C36_NotifiedOnlyByRefresh ==
  [][/\ ev'.notified # <<>> =>
          \E t \in Slots :
            /\ tasks[t].pc = "resp" /\ tasks[t].op \in GetOps
            /\ tasks[t].resp.status = "ok"
            /\ tasks'[t].pc = "idle"
            /\ \A i \in 1..Len(ev'.notified) :
                 /\ ev'.notified[i].data = tasks[t].resp.body
                 /\ \E j \in 1..Len(listeners[tasks[t].key]) :
                      listeners[tasks[t].key][j] = ev'.notified[i].cb
     /\ ev'.type \in {"invalidate", "invalidatePattern", "clear"} =>
          ev'.notified = <<>> /\ listeners' = listeners
     /\ (ev'.op \in WriteOps /\ ev'.type = "return") =>
          /\ ev'.notified = <<>>
          /\ listeners' = listeners
          /\ memory'[KeyOf(Changed(ev'.op))] = None]_vars

\* A write has settled while a subscriber of the written resource was
\* registered and had been given the payload of before the write.
C36_Witness ==
  /\ ev.op = "addMember" /\ ev.type = "return"
  /\ listeners[MembersKey] # <<>>
  /\ IsSome(ev.mem0[MembersKey])
  /\ memory[MembersKey] = None
  /\ ev.notified = <<>>

\* handleConfirm calls addLoan in this step.
AddLoanIssued(t) ==
  /\ tasks'[t].op = "handleConfirm"
  /\ tasks'[t].pc = "await"
  /\ tasks'[t].req.method = "POST"
  /\ ~(tasks[t].pc = "await" /\ tasks[t].req.method = "POST")

\* C38: whenever handleConfirm calls addLoan for a member, the loans sheet
\* holds no loan of that member with Status Active, and the member is in the
\* member list of the component with a Status other than Inactive.
C38_NoSecondActiveLoan ==
  [][\A t \in Slots :
       AddLoanIssued(t) =>
         /\ ~hasActiveLoan(sheet["LOANS"], tasks'[t].name)
         /\ IsSome(findMember(The(tasks'[t].list), tasks'[t].name))
         /\ The(findMember(The(tasks'[t].list), tasks'[t].name)).Status # "Inactive"]_vars

====
